---- MODULE Spec2Model ----
(***************************************************************************)
(* A model of makeflop.py (TwoSide fork): the Floppy class, a FAT12 image  *)
(* held as a byte buffer (.data) plus the decoded FAT array (.fat).        *)
(*                                                                         *)
(* The buffer is modelled byte for byte.  Python's 0-based buffer          *)
(* self.data is the 1-based sequence data, so self.data[k] is data[k+1];   *)
(* likewise self.fat[k] is fat[k+1].  Strings (paths, names) are sequences *)
(* of ASCII codes.                                                         *)
(*                                                                         *)
(* The geometry is that of Floppy.blank_floppy reduced in size and kept in *)
(* shape: 2 heads, 2 sectors per cluster, an odd number of sectors per     *)
(* track, 2 FAT copies, and boot + FATs + root filling exactly track 0 of  *)
(* side 1, so that _boot_open accepts it.                                  *)
(***************************************************************************)
EXTENDS Integers, Sequences, FiniteSets, TLC

(***************************************************************************)
(* Bounds of the model.                                                    *)
(***************************************************************************)
\* tracks per side of the modelled disk (blank_floppy has 80)
Tracks == 2
\* operations performed on one image
MaxOps == 3
\* operations performed on one image, root directory only
MaxRoot == 6
\* operations performed on one image, one directory tree
MaxTree == 4
\* files added to one blank image
MaxFill == 4
\* operations performed on one image, with close_side1 and free_side1
MaxSide == 4
\* bytes of the largest FAT region packed and unpacked on its own
MaxCodec == 6
\* operations performed on one image, with flush and re-construction
MaxSync == 4
\* operations performed on one image while its root directory fills up
MaxFull == 5
\* operations performed on one image, with set_volume_label and set_volume_id
MaxVol == 6
\* operations performed on one image, all five modifying operations mixed
MaxMix == 4
\* calls of _add_chain, _delete_chain and close_side1 on one image
MaxChain == 5
\* operations performed on one image while the directory A grows
MaxGrow == 5
\* calls on one image whose paths lie beside and beneath one name
MaxFrame == 4

(***************************************************************************)
(* The BIOS parameter block of the blank image (reduced geometry).         *)
(***************************************************************************)
sector_size == 64
cluster_sects == 2
reserved_sects == 1
fat_count == 2
root_max == 4
fat_sects == 1
track_sects == 5
heads == 2
sectors == Tracks * track_sects * heads

EMPTY == 229

\* _boot_open: derived offsets
root == sector_size * (reserved_sects + (fat_count * fat_sects))
root_sectors == ((root_max * 32) + (sector_size - 1)) \div sector_size
cluster2 == root + (sector_size * root_sectors)
cluster_limit == ((sectors - (cluster2 \div sector_size)) \div cluster_sects) + 2
cluster_size == sector_size * cluster_sects
ImageLen == sectors * sector_size

(***************************************************************************)
(* Byte and slice helpers (Python slice semantics on 0-based offsets).     *)
(***************************************************************************)
Min(a, b) == IF a < b THEN a ELSE b
Max(a, b) == IF a > b THEN a ELSE b
Rep(n, b) == [i \in 1..n |-> b]
\* d[a:b]
Slice(d, a, b) == SubSeq(d, Min(a, Len(d)) + 1, Min(b, Len(d)))
\* d[a:a+len(bytes)] = bytes   (a + len(bytes) <= len(d) at every use)
Splice(d, a, bytes) == SubSeq(d, 1, a) \o bytes \o SubSeq(d, a + Len(bytes) + 1, Len(d))
\* struct.pack("<H") / ("<L") and their inverses
LE16(n) == <<n % 256, (n \div 256) % 256>>
LE32(n) == <<n % 256, (n \div 256) % 256, (n \div 65536) % 256, (n \div 16777216) % 256>>
UnLE16(b) == b[1] + 256 * b[2]
UnLE32(b) == b[1] + 256 * b[2] + 65536 * b[3] + 16777216 * b[4]

(***************************************************************************)
(* Floppy.blank_floppy: boot sector, FAT copies F7 FF FF 00.., zeroed      *)
(* root, E5 fill.                                                          *)
(***************************************************************************)
blank_boot ==
    <<0, 0, 78, 78, 78, 78, 78, 78, 145, 233, 108>>
    \o LE16(sector_size) \o <<cluster_sects>> \o LE16(reserved_sects)
    \o <<fat_count>> \o LE16(root_max) \o LE16(sectors) \o <<249>>
    \o LE16(fat_sects) \o LE16(track_sects) \o LE16(heads)
    \o <<0, 0>> \o Rep(30, 78) \o Rep(sector_size - 60, 0)

blank_fat == <<247, 255, 255>> \o Rep((fat_sects * sector_size) - 3, 0)

blank_floppy ==
    blank_boot \o blank_fat \o blank_fat \o Rep(32 * root_max, 0)
    \o Rep(ImageLen - cluster2, EMPTY)

(***************************************************************************)
(* _fat_open: unpack the 12-bit entries of FAT copy 0.                     *)
(***************************************************************************)
RECURSIVE fat_read(_, _, _, _)
fat_read(d, e, fat_end, acc) ==
    IF e + 2 > fat_end THEN acc
    ELSE IF Len(acc) % 2 = 0
         THEN fat_read(d, e + 1, fat_end, Append(acc, d[e + 1] + ((d[e + 2] % 16) * 256)))
         ELSE fat_read(d, e + 2, fat_end, Append(acc, (d[e + 1] \div 16) + (d[e + 2] * 16)))

fat_open(d) ==
    LET fat_start == reserved_sects * sector_size
        fat_end == fat_start + (fat_sects * sector_size)
    IN  fat_read(d, fat_start, fat_end, <<>>)

(***************************************************************************)
(* _cluster_offset                                                         *)
(***************************************************************************)
cluster_offset(cluster) ==
    IF cluster < 2 THEN root
    ELSE cluster2 + (sector_size * cluster_sects * (cluster - 2))

(***************************************************************************)
(* The TwoSide allocation order of _add_chain: scan position i (2 ..       *)
(* len(fat)-1) to cluster j, side 1 first.                                 *)
(***************************************************************************)
cside == track_sects \div cluster_sects
tcount == sectors \div (track_sects * 2)
csplit == (tcount - 1) * cside
cdual == (track_sects * 2) \div cluster_sects

ihead(i) == IF (i - 2) < csplit THEN 0 ELSE 1

\* faulty variant of scan_cluster: the plain ascending order, no side preference
scan_linear(i) == i

\* faulty variant of scan_cluster: the data clusters in descending order
scan_downward(i) == IF i < cluster_limit THEN cluster_limit + 1 - i ELSE i

scan_cluster(i) ==
    LET l == i - 2
        icluster == IF l < csplit THEN l % cside ELSE (l - csplit) % (cdual - cside)
        itrack == IF l < csplit THEN l \div cside ELSE (l - csplit) \div (cdual - cside)
    IN  (itrack * cdual) + ((1 - ihead(i)) * (cdual - cside)) + icluster + 2

(***************************************************************************)
(* Floppy._filestring: ASCII bytes padded with spaces to length; it raises *)
(* when the string is longer than length.  ok = FALSE is the raise.        *)
(***************************************************************************)
filestring(s, length) ==
    [ok |-> Len(s) <= length, b |-> s \o Rep(Max(length - Len(s), 0), 32)]

(***************************************************************************)
(* Floppy.FileEntry                                                        *)
(***************************************************************************)
\* str.rstrip(" ")
RECURSIVE rstrip(_)
rstrip(s) ==
    IF Len(s) > 0 /\ s[Len(s)] = 32 THEN rstrip(SubSeq(s, 1, Len(s) - 1)) ELSE s

\* str.find(ch): 0-based index of the first ch, -1 when absent
RECURSIVE find_from(_, _, _)
find_from(s, ch, k) ==
    IF k > Len(s) THEN -1
    ELSE IF s[k] = ch THEN k - 1
    ELSE find_from(s, ch, k + 1)

find(s, ch) == find_from(s, ch, 1)

\* str.rfind(ch)
RECURSIVE rfind_from(_, _, _)
rfind_from(s, ch, k) ==
    IF k < 1 THEN -1
    ELSE IF s[k] = ch THEN k - 1
    ELSE rfind_from(s, ch, k - 1)

rfind(s, ch) == rfind_from(s, ch, Len(s))

\* FileEntry.__init__, the path assembled from filename and extension
entry_path(filename, extension) ==
    IF Len(extension) > 0 THEN filename \o <<46>> \o extension ELSE filename

\* FileEntry.__init__: unpack a 32 byte directory entry
FileEntry(b, dir_cluster, dir_index) ==
    [data |-> b,
     path |-> IF b[1] # 0 /\ b[1] # EMPTY
              THEN entry_path(rstrip(SubSeq(b, 1, 8)), rstrip(SubSeq(b, 9, 11)))
              ELSE <<>>,
     incipit |-> b[1],
     attributes |-> b[12],
     write_time |-> UnLE16(SubSeq(b, 23, 24)),
     write_date |-> UnLE16(SubSeq(b, 25, 26)),
     cluster |-> UnLE16(SubSeq(b, 27, 28)),
     size |-> UnLE32(SubSeq(b, 29, 32)),
     dir_cluster |-> dir_cluster,
     dir_index |-> dir_index]

\* FileEntry(): data=None
FileEntryNew == FileEntry(<<EMPTY>> \o Rep(31, 0), -1, -1)

\* FileEntry.compile, the name bytes: fs and es are _filestring(filename,8) and
\* _filestring(extension,3)
compile_name(e, fs, es) ==
    IF e.incipit # 0 /\ e.incipit # 239
    THEN [ok |-> fs.ok /\ es.ok, b |-> fs.b \o es.b]
    ELSE [ok |-> TRUE, b |-> <<e.incipit>> \o SubSeq(e.data, 2, 11)]

\* FileEntry.compile, after the name bytes
compile_rest(e, name) ==
    [ok |-> name.ok,
     b |-> name.b \o <<e.attributes>> \o SubSeq(e.data, 13, 22)
           \o LE16(e.write_time) \o LE16(e.write_date)
           \o LE16(e.cluster) \o LE32(e.size)]

\* FileEntry.compile, period = path.find(".")
compile_split(e, period) ==
    compile_rest(e,
        compile_name(e,
            filestring(IF period >= 0 THEN SubSeq(e.path, 1, period) ELSE e.path, 8),
            filestring(IF period >= 0 THEN SubSeq(e.path, period + 2, Len(e.path))
                       ELSE <<>>, 3)))

\* FileEntry.compile: the 32 byte structure; ok = FALSE when _filestring raises
compile(e) == compile_split(e, find(e.path, 46))

\* FileEntry.fat_time
fat_time(year, month, day, hour, minute, second) ==
    <<((year - 1980) * 512) + (month * 32) + day,
      (hour * 2048) + (minute * 32) + (second \div 2)>>

\* FileEntry.fat_time_now: the clock is read at one fixed instant
fat_time_now == fat_time(2019, 6, 15, 12, 30, 20)

\* FileEntry.set_name; ok = FALSE when _filestring(s,12) raises
set_name(e, s) ==
    [ok |-> filestring(s, 12).ok,
     e |-> [e EXCEPT !.path = s, !.incipit = filestring(s, 12).b[1]]]

\* FileEntry.set_now
set_now(e) == [e EXCEPT !.write_date = fat_time_now[1], !.write_time = fat_time_now[2]]

\* FileEntry.new_file / new_dir
new_entry(name, attr) ==
    [ok |-> set_name(FileEntryNew, name).ok,
     e |-> [set_now(set_name(FileEntryNew, name).e) EXCEPT !.attributes = attr]]

new_file(name) == new_entry(name, 0)

new_dir(name) == new_entry(name, 16)

\* FileEntry.new_volume
new_volume(name) ==
    new_entry(IF Len(name) > 8
              THEN SubSeq(name, 1, 8) \o <<46>> \o SubSeq(name, 9, Len(name))
              ELSE name, 8)

\* FileEntry.new_terminal
new_terminal == [FileEntryNew EXCEPT !.incipit = 0]

(***************************************************************************)
(* _fat_open in full: the checks that raise, then the unpacking.  The FAT  *)
(* copies of buffer d are compared with copy 0, byte range against byte    *)
(* range.                                                                  *)
(***************************************************************************)
fat_copy(d, i) ==
    Slice(d, (reserved_sects * sector_size) + (fat_sects * sector_size * i),
             (reserved_sects * sector_size) + (fat_sects * sector_size * (i + 1)))

\* a comparison of the first three bytes of the tables only
fat_mismatch_first(d) ==
    \E i \in 1..(fat_count - 1) :
        SubSeq(fat_copy(d, 0), 1, 3) # SubSeq(fat_copy(d, i), 1, 3)

\* "FAT mismatch in table i" for some i in range(1, fat_count)
fat_mismatch(d) == \E i \in 1..(fat_count - 1) : fat_copy(d, 0) # fat_copy(d, i)

\* _fat_open raises
fat_open_raises(d) ==
    \/ sectors < reserved_sects + (fat_count * fat_sects)
    \/ fat_count < 1
    \/ fat_sects < 1
    \/ fat_mismatch(d)

(***************************************************************************)
(* _fat_flush: pack the 12-bit entries into FAT copy 0, two entries to     *)
(* three bytes, then copy table 0 to all tables.                           *)
(***************************************************************************)
\* a build loop that does not keep the neighbouring entry's nibble
RECURSIVE fat_build_clobber(_, _, _, _)
fat_build_clobber(d, f, i, e) ==
    IF i >= Len(f) THEN d
    ELSE IF i % 2 = 0
         THEN fat_build_clobber([d EXCEPT ![e + 1] = f[i + 1] % 256,
                                          ![e + 2] = (f[i + 1] \div 256) % 16],
                                f, i + 1, e + 1)
         ELSE fat_build_clobber([d EXCEPT ![e + 1] = (f[i + 1] % 16) * 16,
                                          ![e + 2] = (f[i + 1] \div 16) % 256],
                                f, i + 1, e + 2)

\* the loop "build FAT 0", from entry i at byte e
RECURSIVE fat_build(_, _, _, _)
fat_build(d, f, i, e) ==
    IF i >= Len(f) THEN d
    ELSE IF i % 2 = 0
         THEN fat_build([d EXCEPT ![e + 1] = f[i + 1] % 256,
                                  ![e + 2] = ((d[e + 2] \div 16) * 16)
                                             + ((f[i + 1] \div 256) % 16)],
                        f, i + 1, e + 1)
         ELSE fat_build([d EXCEPT ![e + 1] = (d[e + 1] % 16) + ((f[i + 1] % 16) * 16),
                                  ![e + 2] = (f[i + 1] \div 16) % 256],
                        f, i + 1, e + 2)

\* a copy loop that copies nothing
fat_replicate_none(d, i) == d

\* the loop "copy to all tables", from table i
RECURSIVE fat_replicate(_, _)
fat_replicate(d, i) ==
    IF i >= fat_count THEN d
    ELSE fat_replicate(
             Splice(d, (reserved_sects * sector_size) + (fat_sects * sector_size * i),
                    fat_copy(d, 0)),
             i + 1)

\* a flush that copies table 0 without building it
fat_flush_copy_only(d, f) == fat_replicate(d, 1)

\* a flush that puts table i one table further
fat_flush_far(d, f) ==
    Splice(fat_build(d, f, 0, reserved_sects * sector_size),
           (reserved_sects * sector_size) + (fat_sects * sector_size * fat_count),
           fat_copy(fat_build(d, f, 0, reserved_sects * sector_size), 0))

fat_flush(d, f) == fat_replicate(fat_build(d, f, 0, reserved_sects * sector_size), 1)

(***************************************************************************)
(* _boot_open and _boot_flush.  boot_fields is struct.unpack of d[11:28];  *)
(* volume_id and volume_label are the fields _boot_open parsed.            *)
(***************************************************************************)
boot_fields(d) ==
    [sector_size |-> UnLE16(Slice(d, 11, 13)),
     cluster_sects |-> d[14],
     reserved_sects |-> UnLE16(Slice(d, 14, 16)),
     fat_count |-> d[17],
     root_max |-> UnLE16(Slice(d, 17, 19)),
     sectors |-> UnLE16(Slice(d, 19, 21)),
     fat_sects |-> UnLE16(Slice(d, 22, 24)),
     track_sects |-> UnLE16(Slice(d, 24, 26)),
     heads |-> UnLE16(Slice(d, 26, 28))]

\* the fields of the modelled geometry
geometry ==
    [sector_size |-> sector_size, cluster_sects |-> cluster_sects,
     reserved_sects |-> reserved_sects, fat_count |-> fat_count,
     root_max |-> root_max, sectors |-> sectors, fat_sects |-> fat_sects,
     track_sects |-> track_sects, heads |-> heads]

\* self.cluster2 as _boot_open computes it from the fields b
boot_cluster2(b) ==
    (b.sector_size * (b.reserved_sects + (b.fat_count * b.fat_sects)))
    + (b.sector_size * (((b.root_max * 32) + (b.sector_size - 1)) \div b.sector_size))

\* _boot_open raises
boot_open_raises(d) ==
    \/ Len(d) < 38
    \/ boot_fields(d).sectors * boot_fields(d).sector_size > Len(d)
    \/ boot_fields(d).heads # 2
    \/ boot_cluster2(boot_fields(d)) # boot_fields(d).sector_size * boot_fields(d).track_sects

\* the volume fields _boot_open reads when d[38] = 0x29.  The 32-bit
\* volume_id is kept as its two 16-bit halves <<low, high>>.
boot_volume_id(d) ==
    IF d[39] = 41 /\ Len(d) >= 54
    THEN <<UnLE16(Slice(d, 39, 41)), UnLE16(Slice(d, 41, 43))>>
    ELSE <<0, 0>>
boot_volume_label(d) == IF d[39] = 41 /\ Len(d) >= 54 THEN rstrip(Slice(d, 43, 54)) ELSE <<>>

\* _boot_flush with the object's volume_id and volume_label
boot_flush(d, volume_id, volume_label) ==
    LET d2 == Splice(d, 11,
                 LE16(sector_size) \o <<cluster_sects>> \o LE16(reserved_sects)
                 \o <<fat_count>> \o LE16(root_max) \o LE16(sectors) \o <<d[22]>>
                 \o LE16(fat_sects) \o LE16(track_sects) \o LE16(heads))
    IN  IF d2[39] = 41 /\ Len(d2) >= 54
        THEN IF filestring(volume_label, 11).ok
             THEN Splice(Splice(d2, 39, LE16(volume_id[1]) \o LE16(volume_id[2])),
                         43, filestring(volume_label, 11).b)
             ELSE Splice(d2, 39, LE16(volume_id[1]) \o LE16(volume_id[2]))
        ELSE d2

\* _boot_flush raises: _filestring(self.volume_label, 11) with a longer label
boot_flush_raises(d, volume_label) ==
    d[39] = 41 /\ Len(d) >= 54 /\ ~filestring(volume_label, 11).ok

\* flush, with the object's volume_id and volume_label
flush(d, f, volume_id, volume_label) == boot_flush(fat_flush(d, f), volume_id, volume_label)

\* Floppy(d), for a buffer d that carries the modelled geometry
\* (boot_fields(d) = geometry): raises (ok = FALSE, nothing is constructed)
\* or yields the object with .data = bytearray(d), .fat = the unpacked FAT
\* and the volume fields _boot_open parsed
Floppy(d) ==
    IF boot_open_raises(d) \/ fat_open_raises(d)
    THEN [ok |-> FALSE, data |-> d, fat |-> <<>>,
          volume_id |-> boot_volume_id(d), volume_label |-> boot_volume_label(d)]
    ELSE [ok |-> TRUE, data |-> d, fat |-> fat_open(d),
          volume_id |-> boot_volume_id(d), volume_label |-> boot_volume_label(d)]

(***************************************************************************)
(* Chain manager: _read_chain, _read_dir_chain, _delete_chain, _add_chain. *)
(* d is the buffer, f the FAT array.                                       *)
(***************************************************************************)
RECURSIVE read_chain_from(_, _, _, _, _)
read_chain_from(d, f, cluster, size, acc) ==
    IF cluster >= 4080 THEN acc
    ELSE IF cluster < 2 THEN acc \o Slice(d, root, root + size)
    ELSE LET read == Min(size, cluster_size)
             offset == cluster_offset(cluster)
             acc2 == acc \o Slice(d, offset, offset + read)
         IN  IF size - read < 1 THEN acc2
             ELSE read_chain_from(d, f, f[cluster + 1], size - read, acc2)

\* faulty variant of read_chain: reads the first cluster of the chain only
read_chain_first(d, f, cluster, size) ==
    read_chain_from(d, f, cluster, Min(size, cluster_size), <<>>)

read_chain(d, f, cluster, size) == read_chain_from(d, f, cluster, size, <<>>)

read_dir_chain(d, f, cluster) ==
    IF cluster < 2 THEN Slice(d, root, root + (root_max * 32))
    ELSE read_chain(d, f, cluster, (sector_size * sectors) \div cluster_sects)

\* faulty variant of delete_chain: frees the first cluster of the chain only
delete_chain_head(f, cluster) ==
    IF cluster < 4080 /\ cluster >= 2 THEN [f EXCEPT ![cluster + 1] = 0] ELSE f

RECURSIVE delete_chain(_, _)
delete_chain(f, cluster) ==
    IF cluster < 4080 /\ cluster >= 2
    THEN delete_chain([f EXCEPT ![cluster + 1] = 0], f[cluster + 1])
    ELSE f

\* faulty variant of find_chain: takes reserved (0xFF0) clusters as free
RECURSIVE find_chain_reserved(_, _, _, _)
find_chain_reserved(f, i, clusters, chain) ==
    IF i >= Len(f) THEN chain
    ELSE IF scan_cluster(i) >= cluster_limit
         THEN find_chain_reserved(f, i + 1, clusters, chain)
    ELSE IF f[scan_cluster(i) + 1] \in {0, 4080}
         THEN IF Len(chain) + 1 >= clusters THEN Append(chain, scan_cluster(i))
              ELSE find_chain_reserved(f, i + 1, clusters, Append(chain, scan_cluster(i)))
    ELSE find_chain_reserved(f, i + 1, clusters, chain)

\* the scan of _add_chain for free clusters, from scan position i
RECURSIVE find_chain(_, _, _, _)
find_chain(f, i, clusters, chain) ==
    IF i >= Len(f) THEN chain
    ELSE LET j == scan_cluster(i)
         IN  IF j >= cluster_limit THEN find_chain(f, i + 1, clusters, chain)
             ELSE LET c2 == IF f[j + 1] = 0 THEN Append(chain, j) ELSE chain
                  IN  IF Len(c2) >= clusters THEN c2
                      ELSE find_chain(f, i + 1, clusters, c2)

\* a variant that links the last cluster of a longer chain back to the first
link_chain_cycle(f, chain) ==
    [k \in 1..Len(f) |->
        IF \E m \in 1..Len(chain) : chain[m] = k - 1
        THEN LET m == CHOOSE m \in 1..Len(chain) : chain[m] = k - 1
             IN  IF m = Len(chain) THEN (IF Len(chain) > 1 THEN chain[1] ELSE 4095)
                 ELSE chain[m + 1]
        ELSE f[k]]

\* a variant that ends the chain with FF8, another end-of-chain value
link_chain_ff8(f, chain) ==
    [k \in 1..Len(f) |->
        IF \E m \in 1..Len(chain) : chain[m] = k - 1
        THEN LET m == CHOOSE m \in 1..Len(chain) : chain[m] = k - 1
             IN  IF m = Len(chain) THEN 4088 ELSE chain[m + 1]
        ELSE f[k]]

\* store the FAT chain: each cluster links to the next, the last holds FFF
link_chain(f, chain) ==
    [k \in 1..Len(f) |->
        IF \E m \in 1..Len(chain) : chain[m] = k - 1
        THEN LET m == CHOOSE m \in 1..Len(chain) : chain[m] = k - 1
             IN  IF m = Len(chain) THEN 4095 ELSE chain[m + 1]
        ELSE f[k]]

\* store the data in the given clusters, cluster_size bytes at a time
RECURSIVE store_data(_, _, _, _)
store_data(d, chain, c, bytes) ==
    IF Len(bytes) = 0 THEN d
    ELSE LET write == Min(Len(bytes), cluster_size)
         IN  store_data(Splice(d, cluster_offset(chain[c]), SubSeq(bytes, 1, write)),
                        chain, c + 1, SubSeq(bytes, write + 1, Len(bytes)))

\* a variant that links the clusters it found also when they are too few
add_chain_store_partial(d, f, bytes, clusters, chain) ==
    IF Len(chain) < clusters THEN [data |-> d, fat |-> link_chain(f, chain), r |-> -1]
    ELSE [data |-> store_data(d, chain, 1, bytes),
          fat |-> link_chain(f, chain),
          r |-> chain[1]]

\* _add_chain once the scan has collected chain: r is the start cluster, -1 when
\* out of space
add_chain_store(d, f, bytes, clusters, chain) ==
    IF Len(chain) < clusters THEN [data |-> d, fat |-> f, r |-> -1]
    ELSE [data |-> store_data(d, chain, 1, bytes),
          fat |-> link_chain(f, chain),
          r |-> chain[1]]

\* the number of clusters _add_chain needs for len(data) bytes
clusters_for(n) == Max((n + cluster_size - 1) \div cluster_size, 1)

\* _add_chain
add_chain(d, f, bytes) ==
    add_chain_store(d, f, bytes, clusters_for(Len(bytes)),
                    find_chain(f, 2, clusters_for(Len(bytes)), <<>>))

(***************************************************************************)
(* _reserve_side1, free_side1, close_side1.  The loop repeats the index    *)
(* mapping of _add_chain (ihead, scan_cluster) over range(2,cluster_limit).*)
(***************************************************************************)
\* faulty variant of reserve_loop: used clusters on side 2 are not subtracted
RECURSIVE reserve_loop_plain(_, _, _, _)
reserve_loop_plain(f, reserve, i, count) ==
    IF i >= cluster_limit THEN [fat |-> f, count |-> count]
    ELSE IF ihead(i) = 0 /\ f[scan_cluster(i) + 1] = 0
         THEN reserve_loop_plain(IF reserve THEN [f EXCEPT ![scan_cluster(i) + 1] = 4080] ELSE f,
                                 reserve, i + 1, count + 1)
         ELSE reserve_loop_plain(f, reserve, i + 1, count)

\* faulty variant of reserve_loop: reserves every free cluster, on either side
RECURSIVE reserve_loop_all(_, _, _, _)
reserve_loop_all(f, reserve, i, count) ==
    IF i >= cluster_limit THEN [fat |-> f, count |-> count]
    ELSE IF f[scan_cluster(i) + 1] = 0
         THEN reserve_loop_all(IF reserve THEN [f EXCEPT ![scan_cluster(i) + 1] = 4080] ELSE f,
                               reserve, i + 1, count + 1)
         ELSE reserve_loop_all(f, reserve, i + 1, count)

\* faulty variant of reserve_loop: a cluster already reserved is set free
RECURSIVE reserve_loop_flip(_, _, _, _)
reserve_loop_flip(f, reserve, i, count) ==
    IF i >= cluster_limit THEN [fat |-> f, count |-> count]
    ELSE IF ihead(i) = 0
         THEN IF f[scan_cluster(i) + 1] = 0
              THEN reserve_loop_flip(IF reserve THEN [f EXCEPT ![scan_cluster(i) + 1] = 4080] ELSE f,
                                     reserve, i + 1, count + 1)
              ELSE reserve_loop_flip(IF reserve /\ f[scan_cluster(i) + 1] = 4080
                                     THEN [f EXCEPT ![scan_cluster(i) + 1] = 0] ELSE f,
                                     reserve, i + 1, count)
         ELSE IF f[scan_cluster(i) + 1] # 0
              THEN reserve_loop_flip(f, reserve, i + 1, count - 1)
              ELSE reserve_loop_flip(f, reserve, i + 1, count)

RECURSIVE reserve_loop(_, _, _, _)
reserve_loop(f, reserve, i, count) ==
    IF i >= cluster_limit THEN [fat |-> f, count |-> count]
    ELSE IF ihead(i) = 0
         THEN IF f[scan_cluster(i) + 1] = 0
              THEN reserve_loop(IF reserve THEN [f EXCEPT ![scan_cluster(i) + 1] = 4080] ELSE f,
                                reserve, i + 1, count + 1)
              ELSE reserve_loop(f, reserve, i + 1, count)
         ELSE IF f[scan_cluster(i) + 1] # 0
              THEN reserve_loop(f, reserve, i + 1, count - 1)
              ELSE reserve_loop(f, reserve, i + 1, count)

\* _reserve_side1: the FAT array afterwards and the count returned
reserve_side1(f, reserve) == reserve_loop(f, reserve, 2, 0)

free_side1(f) == reserve_side1(f, FALSE)
close_side1(f) == reserve_side1(f, TRUE)

(***************************************************************************)
(* Directory engine.  A directory is read as a flat stream of 32 byte      *)
(* records; Entry is the i-th FileEntry of such a stream.                  *)
(***************************************************************************)
Entry(directory, cluster, i) ==
    FileEntry(SubSeq(directory, (i * 32) + 1, (i * 32) + 32), cluster, i)

\* (attributes & 0x08) != 0 and (attributes & 0x10) != 0
is_volume(e) == (e.attributes \div 8) % 2 = 1
is_subdir(e) == (e.attributes \div 16) % 2 = 1
\* e.path == "." or e.path == ".."
is_dot(e) == e.path = <<46>> \/ e.path = <<46, 46>>

\* path.find("\\") split into path_seek and path_next
path_seek(path) ==
    IF find(path, 92) >= 0 THEN SubSeq(path, 1, find(path, 92)) ELSE path
path_next(path) ==
    IF find(path, 92) >= 0 THEN SubSeq(path, find(path, 92) + 2, Len(path)) ELSE <<>>

\* _files_dir
RECURSIVE files_dir(_, _, _, _), files_loop(_, _, _, _, _, _, _),
          files_one(_, _, _, _, _, _, _, _)
files_one(d, f, directory, cluster, path, i, entries, e) ==
    IF e.incipit = 0 THEN entries
    ELSE IF e.incipit = EMPTY \/ is_volume(e)
         THEN files_loop(d, f, directory, cluster, path, i + 1, entries)
    ELSE IF is_subdir(e)
         THEN IF is_dot(e)
              THEN files_loop(d, f, directory, cluster, path, i + 1, entries)
              ELSE files_loop(d, f, directory, cluster, path, i + 1,
                       Append(entries, path \o e.path \o <<92>>)
                       \o files_dir(d, f, e.cluster, path \o e.path \o <<92>>))
    ELSE files_loop(d, f, directory, cluster, path, i + 1, Append(entries, path \o e.path))

files_loop(d, f, directory, cluster, path, i, entries) ==
    IF i >= Len(directory) \div 32 THEN entries
    ELSE files_one(d, f, directory, cluster, path, i, entries, Entry(directory, cluster, i))

files_dir(d, f, cluster, path) ==
    files_loop(d, f, read_dir_chain(d, f, cluster), cluster, path, 0, <<>>)

\* files()
files(d, f) == files_dir(d, f, 0, <<>>)

\* _dir_entry_offset; -1 is the raise "not in its cluster chain"
RECURSIVE dir_entry_offset(_, _, _)
dir_entry_offset(f, cluster, dir_index) ==
    LET per_cluster == (sector_size * cluster_sects) \div 32
    IN  IF cluster < 2 THEN root + (32 * dir_index)
        ELSE IF cluster >= 4080 THEN -1
        ELSE IF dir_index < per_cluster THEN cluster_offset(cluster) + (32 * dir_index)
        ELSE dir_entry_offset(f, f[cluster + 1], dir_index - per_cluster)

\* _find_path_dir: <<>> is None, <<e>> the entry found
RECURSIVE find_path_dir(_, _, _, _), find_loop(_, _, _, _, _, _),
          find_one(_, _, _, _, _, _, _)
find_one(d, f, directory, cluster, path, i, e) ==
    IF e.incipit = 0 THEN <<>>
    ELSE IF e.incipit = EMPTY \/ is_volume(e)
         THEN find_loop(d, f, directory, cluster, path, i + 1)
    ELSE IF is_subdir(e)
         THEN IF is_dot(e)
              THEN find_loop(d, f, directory, cluster, path, i + 1)
              ELSE IF e.path = path_seek(path)
                   THEN IF Len(path_next(path)) > 0
                        THEN find_path_dir(d, f, e.cluster, path_next(path))
                        ELSE <<e>>
                   ELSE find_loop(d, f, directory, cluster, path, i + 1)
    ELSE IF e.path = path_seek(path) /\ path_next(path) = <<>>
         THEN <<e>>
         ELSE find_loop(d, f, directory, cluster, path, i + 1)

find_loop(d, f, directory, cluster, path, i) ==
    IF i >= Len(directory) \div 32 THEN <<>>
    ELSE find_one(d, f, directory, cluster, path, i, Entry(directory, cluster, i))

find_path_dir(d, f, cluster, path) ==
    find_loop(d, f, read_dir_chain(d, f, cluster), cluster, path, 0)

\* a search that looks for the first component of the path only
find_path_first(d, f, path) == find_path_dir(d, f, 0, path_seek(path))

\* find_path
find_path(d, f, path) == find_path_dir(d, f, 0, path)

\* extract_file_path: <<>> is None, <<bytes>> the file's data
extract_entry(d, f, e) ==
    IF e = <<>> THEN <<>> ELSE <<read_chain(d, f, e[1].cluster, e[1].size)>>

extract_file_path(d, f, path) == extract_entry(d, f, find_path(d, f, path))

(***************************************************************************)
(* Mutating operations.  A machine state s is [data, fat, exc]: the buffer,*)
(* the FAT array, and exc = TRUE once an exception has been raised (the    *)
(* state is then the one the raise left behind).  Each operation is split  *)
(* into its successive steps, each step receiving the values the earlier   *)
(* statements computed.                                                    *)
(***************************************************************************)
St(d, f, exc) == [data |-> d, fat |-> f, exc |-> exc]

\* a variant that leaves the entry as it is
delete_file_mark_none(s, f2, offset) ==
    IF offset < 0 THEN St(s.data, f2, TRUE) ELSE St(s.data, f2, FALSE)

\* a variant that empties the entry by clearing its whole slot
delete_file_mark_slot(s, f2, offset) ==
    IF offset < 0 THEN St(s.data, f2, TRUE)
    ELSE St(Splice(s.data, offset, <<EMPTY>> \o [k \in 1..31 |-> 0]), f2, FALSE)

\* delete_file, second statement on: empty the entry at offset
delete_file_mark(s, f2, offset) ==
    IF offset < 0 THEN St(s.data, f2, TRUE)
    ELSE St(Splice(s.data, offset, <<EMPTY>>), f2, FALSE)

\* delete_file, after the entry's chain was deleted (f2)
delete_file_chain(s, entry, f2) ==
    delete_file_mark(s, f2, dir_entry_offset(f2, entry.dir_cluster, entry.dir_index))

\* a variant that empties the entry and leaves its chain allocated
delete_file_keep(s, entry) ==
    IF s.exc THEN s ELSE delete_file_chain(s, entry, s.fat)

\* delete_file
delete_file(s, entry) ==
    IF s.exc THEN s ELSE delete_file_chain(s, entry, delete_chain(s.fat, entry.cluster))

\* _delete_tree
RECURSIVE delete_tree(_, _), delete_loop(_, _, _, _), delete_one(_, _, _, _, _)
delete_one(s, directory, cluster, i, e) ==
    IF e.incipit = 0 THEN s
    ELSE IF e.incipit = EMPTY \/ is_volume(e)
         THEN delete_loop(s, directory, cluster, i + 1)
    ELSE IF is_subdir(e)
         THEN IF is_dot(e)
              THEN delete_loop(s, directory, cluster, i + 1)
              ELSE delete_loop(delete_file(delete_tree(s, e), e), directory, cluster, i + 1)
    ELSE delete_loop(delete_file(s, e), directory, cluster, i + 1)

delete_loop(s, directory, cluster, i) ==
    IF s.exc \/ i >= Len(directory) \div 32 THEN s
    ELSE delete_one(s, directory, cluster, i, Entry(directory, cluster, i))

\* faulty variant of delete_tree: walks the first cluster of the directory only
delete_tree_first(s, de) ==
    delete_loop(s, read_chain(s.data, s.fat, de.cluster, cluster_size), de.cluster, 0)

delete_tree(s, de) ==
    delete_loop(s, read_dir_chain(s.data, s.fat, de.cluster), de.cluster, 0)

\* delete_path once the entry was looked up: r = TRUE / FALSE
delete_found(s, e) ==
    IF e = <<>> THEN [s |-> s, r |-> FALSE]
    ELSE [s |-> delete_file(IF is_subdir(e[1]) THEN delete_tree(s, e[1]) ELSE s, e[1]),
          r |-> TRUE]

\* delete_path
delete_path(s, path) == delete_found(s, find_path(s.data, s.fat, path))

\* the scan of _add_entry: the first slot that is terminal or empty, else dir_len
RECURSIVE scan_slot(_, _, _)
scan_slot(directory, cluster, i) ==
    IF i >= Len(directory) \div 32 THEN i
    ELSE IF Entry(directory, cluster, i).incipit \in {0, EMPTY} THEN i
    ELSE scan_slot(directory, cluster, i + 1)

\* the tail walk of _add_entry: the last cluster of a directory's chain
RECURSIVE dir_tail(_, _)
dir_tail(f, tail) == IF f[tail + 1] < 4080 THEN dir_tail(f, f[tail + 1]) ELSE tail

AddEntryResult(s, ok, entry) == [s |-> s, ok |-> ok, entry |-> entry]

\* _add_entry, "insert entry" on: offset and offset2 are the offsets of slot i and
\* of slot i+1, c the compiled entry
add_entry_write(s, e2, tail_needed, offset, c, offset2) ==
    IF offset < 0 \/ ~c.ok THEN AddEntryResult(St(s.data, s.fat, TRUE), FALSE, e2)
    ELSE IF tail_needed
         THEN IF offset2 < 0
              THEN AddEntryResult(St(Splice(s.data, offset, c.b), s.fat, TRUE), FALSE, e2)
              ELSE AddEntryResult(
                       St(Splice(Splice(s.data, offset, c.b), offset2,
                                 compile(new_terminal).b), s.fat, FALSE),
                       TRUE, e2)
    ELSE AddEntryResult(St(Splice(s.data, offset, c.b), s.fat, FALSE), TRUE, e2)

\* _add_entry, "insert entry": the entry goes to slot i of the directory
add_entry_put(s, dir_cluster, e2, i, tail_needed) ==
    add_entry_write(s, e2, tail_needed,
                    dir_entry_offset(s.fat, dir_cluster, i),
                    compile(e2),
                    dir_entry_offset(s.fat, dir_cluster, i + 1))

\* a variant that links the new page without filling it with zeros
add_entry_grow_dirty(s, dir_cluster, entry, i, a) ==
    IF a.r < 0 THEN AddEntryResult(s, FALSE, entry)
    ELSE add_entry_put(
             St(s.data,
                [a.fat EXCEPT ![dir_tail(a.fat, dir_cluster) + 1] = a.r, ![a.r + 1] = 4095],
                FALSE),
             dir_cluster, [entry EXCEPT !.dir_cluster = dir_cluster, !.dir_index = i],
             i, FALSE)

\* _add_entry, "extend directory": a is the result of _add_chain for the new page
add_entry_grow(s, dir_cluster, entry, i, a) ==
    IF a.r < 0 THEN AddEntryResult(s, FALSE, entry)
    ELSE add_entry_put(
             St(a.data,
                [a.fat EXCEPT ![dir_tail(a.fat, dir_cluster) + 1] = a.r, ![a.r + 1] = 4095],
                FALSE),
             dir_cluster, [entry EXCEPT !.dir_cluster = dir_cluster, !.dir_index = i],
             i, FALSE)

\* _add_entry once the scan stopped at slot i of dir_len
add_entry_at(s, dir_cluster, entry, directory, dir_len, i) ==
    IF i >= dir_len
    THEN IF dir_cluster < 2 THEN AddEntryResult(s, FALSE, entry)
         ELSE add_entry_grow(s, dir_cluster, entry, i,
                  add_chain(s.data, s.fat, Rep(sector_size * cluster_sects, 0)))
    ELSE add_entry_put(s, dir_cluster,
             [entry EXCEPT !.dir_cluster = dir_cluster, !.dir_index = i], i,
             Entry(directory, dir_cluster, i).incipit = 0 /\ i + 1 < dir_len)

add_entry_in(s, dir_cluster, entry, directory) ==
    add_entry_at(s, dir_cluster, entry, directory, Len(directory) \div 32,
                 scan_slot(directory, dir_cluster, 0))

\* _add_entry: ok is the value returned; entry carries dir_cluster and dir_index
add_entry(s, dir_cluster, entry) ==
    add_entry_in(s, dir_cluster, entry, read_dir_chain(s.data, s.fat, dir_cluster))

\* faulty variant of dir_lookup: never finds the subdirectory
dir_lookup_none(directory, cluster, seek, i) == <<>>

\* the lookup of _add_dir_recursive: the first subdirectory entry named seek
RECURSIVE dir_lookup(_, _, _, _)
dir_lookup(directory, cluster, seek, i) ==
    IF i >= Len(directory) \div 32 THEN <<>>
    ELSE IF Entry(directory, cluster, i).incipit = 0 THEN <<>>
    ELSE IF Entry(directory, cluster, i).incipit # EMPTY
            /\ is_subdir(Entry(directory, cluster, i))
            /\ Entry(directory, cluster, i).path = seek
         THEN <<Entry(directory, cluster, i)>>
    ELSE dir_lookup(directory, cluster, seek, i + 1)

\* the block of a new directory: "_" and "__" entries, zero fill
dir_block(cluster) ==
    compile(new_dir(<<95>>).e).b
    \o compile([new_dir(<<95, 95>>).e EXCEPT !.cluster = cluster]).b
    \o Rep((sector_size * cluster_sects) - 64, 0)

\* _add_dir_recursive, the fix-ups of "." and "..": the buffer after them
dir_fixup(d, offset, new_cluster) ==
    Splice(Splice(Splice(d, offset,
                         compile([new_dir(<<95>>).e EXCEPT !.cluster = new_cluster]).b),
                  offset, <<46>> \o Rep(10, 32)),
           offset + 32, <<46, 46>> \o Rep(9, 32))

DirResult(s, r) == [s |-> s, r |-> r]

RECURSIVE add_dir_recursive(_, _, _), add_dir_found(_, _, _, _),
          add_dir_new(_, _, _, _), add_dir_named(_, _, _, _, _),
          add_dir_linked(_, _, _)

\* _add_dir_recursive, after _add_entry (ae) for the new directory new_cluster
add_dir_linked(path, new_cluster, ae) ==
    IF ae.s.exc THEN DirResult(ae.s, -1)
    ELSE IF ~ae.ok
         THEN DirResult(St(ae.s.data, delete_chain(ae.s.fat, new_cluster), FALSE), -1)
    ELSE IF Len(path_next(path)) < 1 THEN DirResult(ae.s, new_cluster)
    ELSE add_dir_recursive(ae.s, new_cluster, path_next(path))

\* _add_dir_recursive, "create entry to point to new directory cluster"
add_dir_named(s3, cluster, path, new_cluster, nd) ==
    IF ~nd.ok THEN DirResult(St(s3.data, s3.fat, TRUE), -1)
    ELSE add_dir_linked(path, new_cluster,
             add_entry(s3, cluster, [nd.e EXCEPT !.cluster = new_cluster]))

\* _add_dir_recursive, "not found: create the directory": a is the result of
\* _add_chain(dir_block)
add_dir_new(s, cluster, path, a) ==
    IF a.r < 0 THEN DirResult(s, -1)
    ELSE add_dir_named(
             St(dir_fixup(a.data, dir_entry_offset(a.fat, a.r, 0), a.r), a.fat, FALSE),
             cluster, path, a.r, new_dir(path_seek(path)))

\* _add_dir_recursive once the directory was searched: hit is the entry found
add_dir_found(s, cluster, path, hit) ==
    IF hit # <<>>
    THEN IF Len(path_next(path)) < 1 THEN DirResult(s, hit[1].cluster)
         ELSE add_dir_recursive(s, hit[1].cluster, path_next(path))
    ELSE add_dir_new(s, cluster, path, add_chain(s.data, s.fat, dir_block(cluster)))

\* _add_dir_recursive: r is the cluster of the directory, -1 when failed
add_dir_recursive(s, cluster, path) ==
    add_dir_found(s, cluster, path,
        dir_lookup(read_dir_chain(s.data, s.fat, cluster), cluster, path_seek(path), 0))

\* add_dir_path
add_dir_path(s, path) ==
    IF Len(path) < 1 THEN DirResult(s, 0) ELSE add_dir_recursive(s, 0, path)

FileResult(s, r) == [s |-> s, r |-> r]

\* a variant that keeps the chain of a file whose entry found no room
add_file_linked_keep(cluster, ae) ==
    IF ae.s.exc \/ ~ae.ok THEN FileResult(ae.s, FALSE)
    ELSE FileResult(
             St(Splice(ae.s.data,
                       dir_entry_offset(ae.s.fat, ae.entry.dir_cluster, ae.entry.dir_index),
                       compile(ae.entry).b),
                ae.s.fat, FALSE),
             TRUE)

\* add_file_path, after _add_entry (ae): the final rewrite of the entry
add_file_linked(cluster, ae) ==
    IF ae.s.exc THEN FileResult(ae.s, FALSE)
    ELSE IF ~ae.ok
         THEN FileResult(St(ae.s.data, delete_chain(ae.s.fat, cluster), FALSE), FALSE)
    ELSE FileResult(
             St(Splice(ae.s.data,
                       dir_entry_offset(ae.s.fat, ae.entry.dir_cluster, ae.entry.dir_index),
                       compile(ae.entry).b),
                ae.s.fat, FALSE),
             TRUE)

\* add_file_path, after _add_chain(data) (a): build and insert the entry nf
add_file_chained(s, dir_cluster, size, a, nf) ==
    IF a.r < 0 THEN FileResult(s, FALSE)
    ELSE IF ~nf.ok THEN FileResult(St(a.data, a.fat, TRUE), FALSE)
    ELSE add_file_linked(a.r,
             add_entry(St(a.data, a.fat, FALSE), dir_cluster,
                       [nf.e EXCEPT !.cluster = a.r, !.size = size]))

\* add_file_path, after add_dir_path(dir_path) (dr)
add_file_in(dr, file_path, bytes) ==
    IF dr.s.exc \/ dr.r < 0 THEN FileResult(dr.s, FALSE)
    ELSE add_file_chained(dr.s, dr.r, Len(bytes),
                          add_chain(dr.s.data, dr.s.fat, bytes), new_file(file_path))

\* add_file_path, after delete_path(path) (s1); separator = path.rfind("\\")
add_file_split(s1, path, separator, bytes) ==
    IF s1.exc THEN FileResult(s1, FALSE)
    ELSE add_file_in(
             add_dir_path(s1, IF separator >= 0 THEN SubSeq(path, 1, separator) ELSE <<>>),
             IF separator >= 0 THEN SubSeq(path, separator + 2, Len(path)) ELSE path,
             bytes)

\* add_file_path: r = TRUE / FALSE
add_file_path(s, path, bytes) ==
    add_file_split(delete_path(s, path).s, path, rfind(path, 92), bytes)

(***************************************************************************)
(* set_volume_id and set_volume_label.  The 32-bit volume_id is kept as    *)
(* its two 16-bit halves <<low, high>>; value & 0xFFFFFFFF of an integer   *)
(* value, negative ones included, has the halves value mod 2^16 and        *)
(* floor(value / 2^16) mod 2^16.                                           *)
(***************************************************************************)
\* set_volume_id(value): the new self.volume_id
set_volume_id(value) == <<value % 65536, (value \div 65536) % 65536>>

\* set_volume_id(None): value = time | (date << 16)
set_volume_id_now == <<fat_time_now[2], fat_time_now[1]>>

\* set_volume_label, the scan "adjust existing volume entry in root": the
\* index of the first volume entry before the end of the directory, else -1
RECURSIVE volume_slot(_, _)
volume_slot(directory, i) ==
    IF i >= Len(directory) \div 32 THEN -1
    ELSE IF Entry(directory, 0, i).incipit = 0 THEN -1
    ELSE IF Entry(directory, 0, i).incipit = EMPTY THEN volume_slot(directory, i + 1)
    ELSE IF is_volume(Entry(directory, 0, i)) THEN i
    ELSE volume_slot(directory, i + 1)

\* set_volume_label with an existing volume entry in slot i
set_volume_existing(s, label, i) ==
    IF filestring(label, 11).ok
    THEN St(Splice(s.data, dir_entry_offset(s.fat, 0, i), filestring(label, 11).b),
            s.fat, FALSE)
    ELSE St(s.data, s.fat, TRUE)

\* set_volume_label, "volume entry does not exist in root, add one": the
\* value _add_entry returns is not looked at
set_volume_new(s, nv) ==
    IF ~nv.ok THEN St(s.data, s.fat, TRUE) ELSE add_entry(s, 0, nv.e).s

\* set_volume_label after its first three statements (s)
set_volume_scan(s, label, i) ==
    IF i >= 0 THEN set_volume_existing(s, label, i)
    ELSE set_volume_new(s, new_volume(label))

\* set_volume_label: the new machine state; self.volume_label is label
set_volume_label(s, label) ==
    set_volume_scan(
        St(Splice([s.data EXCEPT ![39] = 41], 54, filestring(<<70, 65, 84, 49, 50>>, 8).b),
           s.fat, FALSE),
        label,
        volume_slot(read_dir_chain(s.data, s.fat, 0), 0))

(***************************************************************************)
(* The state machine.  data, fat, volume_id and volume_label are the       *)
(* fields of the Floppy object; last and prev record the latest two calls (operation, arguments, value       *)
(* returned, exc = TRUE when the call raised; for delete_path, slots = the  *)
(* number of 32 byte slots of the directory the path named when called, 0  *)
(* when it named none); nops counts the calls.                             *)
(***************************************************************************)
VARIABLES data, fat, volume_id, volume_label, last, prev, nops

vars == <<data, fat, volume_id, volume_label, last, prev, nops>>

\* the machine state the operations work on
Machine == [data |-> data, fat |-> fat, exc |-> FALSE]

NoCall ==
    [op |-> "none", path |-> <<>>, bytes |-> <<>>, ret |-> 0, exc |-> FALSE,
     slots |-> 0]

Call(op, path, bytes, ret, exc, slots) ==
    [op |-> op, path |-> path, bytes |-> bytes, ret |-> ret, exc |-> exc,
     slots |-> slots]

\* Floppy(): the blank image, parsed
Init ==
    /\ data = blank_floppy
    /\ fat = fat_open(blank_floppy)
    /\ volume_id = boot_volume_id(blank_floppy)
    /\ volume_label = boot_volume_label(blank_floppy)
    /\ last = NoCall
    /\ prev = NoCall
    /\ nops = 0


(***************************************************************************)
(* Inputs: names, paths and file contents.                                 *)
(***************************************************************************)
Join(a, b) == a \o <<92>> \o b
\* "A", "B", "C", "D", "B.T" and a name whose base has 9 characters,
\* "ABCDEFGHI"
NameA == <<65>>
NameB == <<66>>
NameC == <<67>>
NameD == <<68>>
NameBT == <<66, 46, 84>>
NameLong == <<65, 66, 67, 68, 69, 70, 71, 72, 73>>
\* a file's content of n bytes
Bytes(n) == [i \in 1..n |-> ((i * 7) + n) % 251]
\* the number of data clusters of the image
NClusters == cluster_limit - 2
\* directory slots per cluster
PerCluster == cluster_size \div 32

\* the slots of the directory path names (0 when it names no directory)
SlotsOf(path) ==
    LET e == find_path(data, fat, path)
    IN  IF e # <<>> /\ is_subdir(e[1])
        THEN Len(read_dir_chain(data, fat, e[1].cluster)) \div 32
        ELSE 0

\* add_file_path(p, b), with p and b drawn from the given sets
AddFileOf(P, S, bound) ==
    \E p \in P, n \in S :
        /\ nops < bound
        /\ LET x == add_file_path(Machine, p, Bytes(n))
           IN  /\ data' = x.s.data
               /\ fat' = x.s.fat
               /\ last' = Call("add_file", p, Bytes(n), IF x.r THEN 1 ELSE 0, x.s.exc, 0)
        /\ prev' = last
        /\ nops' = nops + 1
        /\ UNCHANGED <<volume_id, volume_label>>

\* add_dir_path(p)
AddDirOf(P, bound) ==
    \E p \in P :
        /\ nops < bound
        /\ LET x == add_dir_path(Machine, p)
           IN  /\ data' = x.s.data
               /\ fat' = x.s.fat
               /\ last' = Call("add_dir", p, <<>>, x.r, x.s.exc, 0)
        /\ prev' = last
        /\ nops' = nops + 1
        /\ UNCHANGED <<volume_id, volume_label>>

\* delete_path(p)
DeleteOf(P, bound) ==
    \E p \in P :
        /\ nops < bound
        /\ LET x == delete_path(Machine, p)
           IN  /\ data' = x.s.data
               /\ fat' = x.s.fat
               /\ last' = Call("delete", p, <<>>, IF x.r THEN 1 ELSE 0, x.s.exc,
                               SlotsOf(p))
        /\ prev' = last
        /\ nops' = nops + 1
        /\ UNCHANGED <<volume_id, volume_label>>

(***************************************************************************)
(* Spec: any MaxOps calls, on root and nested paths, valid and too long    *)
(* names, empty, two-cluster and nearly disk-filling contents.             *)
(***************************************************************************)
Paths == {NameA, NameB, Join(NameA, NameBT), NameLong}
Sizes == {0, cluster_size + 1, (NClusters - 1) * cluster_size}
DirPaths == {NameA, Join(NameA, NameBT), NameLong}
DeletePaths == {NameA, NameB, Join(NameA, NameBT)}

AddFile == AddFileOf(Paths, Sizes, MaxOps)
AddDir == AddDirOf(DirPaths, MaxOps)
Delete == DeleteOf(DeletePaths, MaxOps)

Next == AddFile \/ AddDir \/ Delete

Spec == Init /\ [][Next]_vars

(***************************************************************************)
(* SpecRoot: up to MaxRoot calls on two names of the root directory.       *)
(***************************************************************************)
RootPaths == {NameA, NameB}
RootSizes == {1, 2}

AddFileRoot == AddFileOf(RootPaths, RootSizes, MaxRoot)
AddDirRoot == AddDirOf(RootPaths, MaxRoot)
DeleteRoot == DeleteOf(RootPaths, MaxRoot)

NextRoot == AddFileRoot \/ AddDirRoot \/ DeleteRoot

SpecRoot == Init /\ [][NextRoot]_vars

(***************************************************************************)
(* SpecTree: up to MaxTree calls building and deleting the tree under the  *)
(* directory A: files A\A, A\C and A\B\A, the subdirectory A\B.  With its  *)
(* "." and ".." entries the directory A fills its first cluster after two  *)
(* entries and grows with the third.                                       *)
(***************************************************************************)
TreeFiles == {Join(NameA, NameA), Join(NameA, NameC), Join(Join(NameA, NameB), NameA)}
TreeDirs == {Join(NameA, NameB)}
TreeDeletes == {NameA, Join(NameA, NameB), Join(NameA, NameA)}
TreeSizes == {1}

AddFileTree == AddFileOf(TreeFiles, TreeSizes, MaxTree)
AddDirTree == AddDirOf(TreeDirs, MaxTree)
DeleteTree == DeleteOf(TreeDeletes, MaxTree)

NextTree == AddFileTree \/ AddDirTree \/ DeleteTree

SpecTree == Init /\ [][NextTree]_vars

(***************************************************************************)
(* SpecFill: the blank image filled with single-cluster files, one after   *)
(* another, each at a path not yet present, until an add fails.            *)
(***************************************************************************)
FillPaths ==
    {NameA, NameB, NameC, Join(NameD, NameA), Join(NameD, NameB), Join(NameD, NameC),
     Join(Join(NameD, NameD), NameA)}
FillSizes == {cluster_size}

AddFileFill ==
    \E p \in FillPaths, n \in FillSizes :
        /\ nops < MaxFill
        /\ nops = 0 \/ last.ret = 1
        /\ find_path(data, fat, p) = <<>>
        /\ LET x == add_file_path(Machine, p, Bytes(n))
           IN  /\ data' = x.s.data
               /\ fat' = x.s.fat
               /\ last' = Call("add_file", p, Bytes(n), IF x.r THEN 1 ELSE 0, x.s.exc, 0)
        /\ prev' = last
        /\ nops' = nops + 1
        /\ UNCHANGED <<volume_id, volume_label>>

NextFill == AddFileFill

SpecFill == Init /\ [][NextFill]_vars

(***************************************************************************)
(* SpecSide: up to MaxSide calls, among them close_side1 and free_side1,   *)
(* on files of one cluster and files that fill the disk.                   *)
(***************************************************************************)
\* close_side1()
CloseSide1Of(bound) ==
    /\ nops < bound
    /\ data' = data
    /\ fat' = close_side1(fat).fat
    /\ last' = Call("close_side1", <<>>, <<>>, close_side1(fat).count, FALSE, 0)
    /\ prev' = last
    /\ nops' = nops + 1
    /\ UNCHANGED <<volume_id, volume_label>>

\* free_side1()
FreeSide1Of(bound) ==
    /\ nops < bound
    /\ data' = data
    /\ fat' = free_side1(fat).fat
    /\ last' = Call("free_side1", <<>>, <<>>, free_side1(fat).count, FALSE, 0)
    /\ prev' = last
    /\ nops' = nops + 1
    /\ UNCHANGED <<volume_id, volume_label>>

SidePaths == {NameA, NameB, Join(NameD, NameA)}
SideSizes == {1, NClusters * cluster_size}
SideDeletes == {NameA, NameB}

AddFileSide == AddFileOf(SidePaths, SideSizes, MaxSide)
DeleteSide == DeleteOf(SideDeletes, MaxSide)
CloseSide1 == CloseSide1Of(MaxSide)
FreeSide1 == FreeSide1Of(MaxSide)

NextSide == AddFileSide \/ DeleteSide \/ CloseSide1 \/ FreeSide1

SpecSide == Init /\ [][NextSide]_vars

(***************************************************************************)
(* The FAT codec on its own: a FAT region of n bytes, holding any bytes,   *)
(* and an array of 12-bit entries of the length _fat_open reads from n     *)
(* bytes.  FatFlush is the loop "build FAT 0" of _fat_flush, FatOpen the   *)
(* loop "read FAT 0" of _fat_open, both with fat_start = 0 and             *)
(* fat_end = n.                                                            *)
(***************************************************************************)
CodecLens == 2..MaxCodec
CodecFill == {0, 255}
CodecEntry == {0, 291, 2748, 4095}
CodecEntries(n) == Len(fat_read(Rep(n, 0), 0, n, <<>>))

InitCodec ==
    /\ \E n \in CodecLens :
          /\ data \in {Rep(n, b) : b \in CodecFill}
          /\ fat \in [1..CodecEntries(n) -> CodecEntry]
    /\ volume_id = <<0, 0>>
    /\ volume_label = <<>>
    /\ last = NoCall
    /\ prev = NoCall
    /\ nops = 0

FatFlush ==
    /\ last.op = "none"
    /\ data' = fat_build(data, fat, 0, 0)
    /\ fat' = fat
    /\ last' = Call("fat_flush", <<>>, <<>>, 0, FALSE, 0)
    /\ prev' = last
    /\ nops' = nops + 1
    /\ UNCHANGED <<volume_id, volume_label>>

FatOpen ==
    /\ last.op = "fat_flush"
    /\ data' = data
    /\ fat' = fat_read(data, 0, Len(data), <<>>)
    /\ last' = Call("fat_open", <<>>, <<>>, 0, FALSE, 0)
    /\ prev' = last
    /\ nops' = nops + 1
    /\ UNCHANGED <<volume_id, volume_label>>

NextCodec == FatFlush \/ FatOpen
SpecCodec == InitCodec /\ [][NextCodec]_vars

(***************************************************************************)
(* Operations with flush() and with the construction of a new Floppy from  *)
(* the bytes of the buffer, as they are or with one byte of a FAT table    *)
(* changed.  A construction that raises leaves no object: data is then the *)
(* buffer the failed constructor held, and nothing more is called.  The    *)
(* unchanged buffer is read back only when the object has flushed all it   *)
(* did; a changed one is tried at any moment.                              *)
(***************************************************************************)
Constructed == ~(last.op = "open" /\ last.exc)
Flushed == last.op \in {"none", "flush", "open"}

FlushOf(bound) ==
    /\ nops < bound
    /\ data' = flush(data, fat, volume_id, volume_label)
    /\ fat' = fat
    /\ last' = Call("flush", <<>>, <<>>, 0, boot_flush_raises(data, volume_label), 0)
    /\ prev' = last
    /\ nops' = nops + 1
    /\ UNCHANGED <<volume_id, volume_label>>

\* Floppy(b)
OpenOf(B, bound) ==
    \E b \in B :
        /\ nops < bound
        /\ data' = Floppy(b).data
        /\ fat' = Floppy(b).fat
        /\ volume_id' = Floppy(b).volume_id
        /\ volume_label' = Floppy(b).volume_label
        /\ last' = Call("open", <<>>, b, 0, ~Floppy(b).ok, 0)
        /\ prev' = last
        /\ nops' = nops + 1

\* byte offsets in the FAT tables: first, fourth and last byte of each
CorruptAt ==
    {(reserved_sects * sector_size) + (fat_sects * sector_size * i) + k :
        i \in 0..(fat_count - 1), k \in {0, 3, (fat_sects * sector_size) - 1}}
Corrupt(d, k) == [d EXCEPT ![k + 1] = (d[k + 1] + 1) % 256]
Buffers == (IF Flushed THEN {data} ELSE {}) \cup {Corrupt(data, k) : k \in CorruptAt}

SyncPaths == {NameA, Join(NameD, NameA)}
SyncSizes == {1, cluster_size + 1}
SyncDeletes == {NameA, NameD}
AddFileSync == Constructed /\ AddFileOf(SyncPaths, SyncSizes, MaxSync)
DeleteSync == Constructed /\ DeleteOf(SyncDeletes, MaxSync)
FlushSync == Constructed /\ FlushOf(MaxSync)
OpenSync == Constructed /\ OpenOf(Buffers, MaxSync)
NextSync == AddFileSync \/ DeleteSync \/ FlushSync \/ OpenSync
SpecSync == Init /\ [][NextSync]_vars

(***************************************************************************)
(* SpecFull: files and directories added to the root directory, each under *)
(* a name not present yet, and deleted again: with root_max entries the    *)
(* root is full and the next addition has no slot.                         *)
(***************************************************************************)
FullFiles == {NameA, NameB, NameC, NameBT}
FullSizes == {1, cluster_size + 1}
FullDirs == {NameC, NameD}
FullDeletes == {NameA}
AddFileFull ==
    \E p \in FullFiles :
        /\ find_path(data, fat, p) = <<>>
        /\ AddFileOf({p}, FullSizes, MaxFull)
AddDirFull ==
    \E p \in FullDirs :
        /\ find_path(data, fat, p) = <<>>
        /\ AddDirOf({p}, MaxFull)
DeleteFull == DeleteOf(FullDeletes, MaxFull)
NextFull == AddFileFull \/ AddDirFull \/ DeleteFull
SpecFull == Init /\ [][NextFull]_vars

(***************************************************************************)
(* SpecVolume: set_volume_label and set_volume_id, flush() and the         *)
(* construction of a new Floppy from the flushed buffer, on an image whose *)
(* root directory is filled with the files A, B, C, D in this order.       *)
(***************************************************************************)
\* set_volume_label(label)
SetVolumeLabelOf(L, bound) ==
    \E label \in L :
        /\ nops < bound
        /\ data' = set_volume_label(Machine, label).data
        /\ fat' = set_volume_label(Machine, label).fat
        /\ volume_label' = label
        /\ volume_id' = volume_id
        /\ last' = Call("set_volume_label", label, <<>>, 0,
                        set_volume_label(Machine, label).exc, 0)
        /\ prev' = last
        /\ nops' = nops + 1

\* set_volume_id(value) and set_volume_id()
SetVolumeIdOf(V, bound) ==
    /\ nops < bound
    /\ \/ \E value \in V :
             /\ volume_id' = set_volume_id(value)
             /\ last' = Call("set_volume_id", <<>>, <<>>, value, FALSE, 0)
       \/ /\ volume_id' = set_volume_id_now
          /\ last' = Call("set_volume_id_now", <<>>, <<>>, 0, FALSE, 0)
    /\ UNCHANGED <<data, fat, volume_label>>
    /\ prev' = last
    /\ nops' = nops + 1

VolLabels == {NameA, NameLong}
VolIds == {-1, 65538}
VolFiles == {NameA, NameB, NameC, NameD}
AddFileVol ==
    \E p \in VolFiles :
        /\ find_path(data, fat, p) = <<>>
        /\ \A q \in VolFiles : q[1] < p[1] => find_path(data, fat, q) # <<>>
        /\ AddFileOf({p}, {1}, MaxVol)
SetVolumeLabel == Constructed /\ SetVolumeLabelOf(VolLabels, MaxVol)
SetVolumeId == Constructed /\ SetVolumeIdOf(VolIds, MaxVol)
FlushVol == Constructed /\ FlushOf(MaxVol)
OpenVol == Constructed /\ Flushed /\ OpenOf({data}, MaxVol)
NextVolume == AddFileVol \/ SetVolumeLabel \/ SetVolumeId \/ FlushVol \/ OpenVol
SpecVolume == Init /\ [][NextVolume]_vars

(***************************************************************************)
(* SpecMix: up to MaxMix calls of add_file_path, add_dir_path,             *)
(* delete_path, close_side1 and set_volume_label.  The file A takes all    *)
(* but four clusters; with the directory D and the files D\A and D\B       *)
(* one cluster stays free, and adding D\C then finds no cluster for the    *)
(* third slot of D.  The directory name of nine characters makes           *)
(* add_dir_path raise.                                                     *)
(***************************************************************************)
MixSmall == {Join(NameD, NameA), Join(NameD, NameB), Join(NameD, NameC)}
MixBig == (NClusters - 4) * cluster_size
MixDirs == {NameD, NameLong}
MixDeletes == {NameA, NameD}
MixLabels == {NameA}

AddFileMix == AddFileOf({NameA}, {MixBig}, MaxMix) \/ AddFileOf(MixSmall, {1}, MaxMix)
AddDirMix == AddDirOf(MixDirs, MaxMix)
DeleteMix == DeleteOf(MixDeletes, MaxMix)
CloseSide1Mix == CloseSide1Of(MaxMix)
SetVolumeLabelMix == SetVolumeLabelOf(MixLabels, MaxMix)

NextMix == AddFileMix \/ AddDirMix \/ DeleteMix \/ CloseSide1Mix \/ SetVolumeLabelMix

SpecMix == Init /\ [][NextMix]_vars

(***************************************************************************)
(* SpecChain: up to MaxChain calls of _add_chain, _delete_chain and        *)
(* close_side1 on the blank image, as add_file_path and delete_path make   *)
(* them for files of the root directory.  _delete_chain is called with     *)
(* the first cluster of a chain _add_chain returned.                       *)
(***************************************************************************)
ChainSizes == {0, cluster_size + 1, 3 * cluster_size}
\* the first clusters of the chains of the FAT
ChainStarts(f) ==
    {c \in 2..(cluster_limit - 1) :
        /\ f[c + 1] \notin {0, 4080}
        /\ \A b \in 2..(cluster_limit - 1) : f[b + 1] # c}

\* _add_chain(data)
AddChain ==
    \E n \in ChainSizes :
        /\ nops < MaxChain
        /\ data' = add_chain(data, fat, Bytes(n)).data
        /\ fat' = add_chain(data, fat, Bytes(n)).fat
        /\ last' = Call("add_chain", <<>>, Bytes(n), add_chain(data, fat, Bytes(n)).r, FALSE, 0)
        /\ prev' = last
        /\ nops' = nops + 1
        /\ UNCHANGED <<volume_id, volume_label>>

\* _delete_chain(cluster)
DeleteChain ==
    \E c \in ChainStarts(fat) :
        /\ nops < MaxChain
        /\ data' = data
        /\ fat' = delete_chain(fat, c)
        /\ last' = Call("delete_chain", <<>>, <<>>, c, FALSE, 0)
        /\ prev' = last
        /\ nops' = nops + 1
        /\ UNCHANGED <<volume_id, volume_label>>

CloseSide1Chain == CloseSide1Of(MaxChain)

NextChain == AddChain \/ DeleteChain \/ CloseSide1Chain

SpecChain == Init /\ [][NextChain]_vars

(***************************************************************************)
(* SpecGrow: up to MaxGrow calls that fill the first cluster of the        *)
(* directory A (".", "..", A\A, A\C) and insert a further entry, the file  *)
(* A\D or the directory A\B.  The root file B of two full clusters, when   *)
(* deleted before, leaves its bytes in the clusters the insertion takes.   *)
(***************************************************************************)
GrowFill == {NameB}
GrowFillSizes == {2 * cluster_size}
GrowFiles == {Join(NameA, NameA), Join(NameA, NameC), Join(NameA, NameD)}
GrowDirs == {Join(NameA, NameB)}
GrowDeletes == {NameB, Join(NameA, NameA)}

AddFileGrow == AddFileOf(GrowFill, GrowFillSizes, MaxGrow) \/ AddFileOf(GrowFiles, {1}, MaxGrow)
AddDirGrow == AddDirOf(GrowDirs, MaxGrow)
DeleteGrow == DeleteOf(GrowDeletes, MaxGrow)

NextGrow == AddFileGrow \/ AddDirGrow \/ DeleteGrow

SpecGrow == Init /\ [][NextGrow]_vars


(***************************************************************************)
(* SpecFrame: up to MaxFrame calls on the root names A and B and on the    *)
(* path A\C beneath the name A, so that a call on A\C meets a file or a    *)
(* directory named A, in a root whose slots are freed and taken again.     *)
(***************************************************************************)
FrameFiles == {NameA, NameB, Join(NameA, NameC)}
FrameSizes == {1}
FrameDirs == {Join(NameA, NameC)}
FrameDeletes == {NameA, NameB}

AddFileFrame == AddFileOf(FrameFiles, FrameSizes, MaxFrame)
AddDirFrame == AddDirOf(FrameDirs, MaxFrame)
DeleteFrame == DeleteOf(FrameDeletes, MaxFrame)

NextFrame == AddFileFrame \/ AddDirFrame \/ DeleteFrame

SpecFrame == Init /\ [][NextFrame]_vars

(***************************************************************************)
(* The geometry of the blank image itself (720K: 512 byte sectors, 9 per   *)
(* track, 80 tracks, 2 heads), read from the first 32 bytes of             *)
(* blank_floppy, and the index mapping of _add_chain and _reserve_side1    *)
(* as functions of the boot fields b.                                      *)
(***************************************************************************)
blank_floppy_boot ==
    <<0, 0, 78, 78, 78, 78, 78, 78, 145, 233, 108, 0, 2, 2, 1, 0,
      2, 32, 0, 160, 5, 249, 3, 0, 9, 0, 2, 0, 0, 0, 78, 78>>
blank_fields == boot_fields(blank_floppy_boot)

\* self.cluster_limit as _boot_open computes it from the fields b
boot_cluster_limit(b) ==
    ((b.sectors - (boot_cluster2(b) \div b.sector_size)) \div b.cluster_sects) + 2
\* len(self.fat) after _fat_open: two entries to every three bytes of a copy
boot_fat_len(b) == (2 * (b.fat_sects * b.sector_size)) \div 3

\* a variant of _cluster_offset that counts the clusters from 1
cluster_offset_from1(b, cluster) ==
    IF cluster < 2 THEN b.sector_size * (b.reserved_sects + (b.fat_count * b.fat_sects))
    ELSE boot_cluster2(b) + (b.sector_size * b.cluster_sects * (cluster - 1))

\* _cluster_offset
cluster_offset_of(b, cluster) ==
    IF cluster < 2 THEN b.sector_size * (b.reserved_sects + (b.fat_count * b.fat_sects))
    ELSE boot_cluster2(b) + (b.sector_size * b.cluster_sects * (cluster - 2))

\* the body of the loop of _add_chain up to j, for scan position i
add_chain_index(b, i) ==
    LET c_side == b.track_sects \div b.cluster_sects
        t_count == b.sectors \div (b.track_sects * 2)
        c_split == (t_count - 1) * c_side
        c_dual == (b.track_sects * 2) \div b.cluster_sects
        l == i - 2
        icluster == IF l < c_split THEN l % c_side ELSE (l - c_split) % (c_dual - c_side)
        itrack == IF l < c_split THEN l \div c_side ELSE (l - c_split) \div (c_dual - c_side)
        ihd == IF l < c_split THEN 0 ELSE 1
    IN  [j |-> (itrack * c_dual) + ((1 - ihd) * (c_dual - c_side)) + icluster + 2,
         ihead |-> ihd]

\* a variant of the loop body of _reserve_side1 that takes the side 1
\* clusters from the start of each double track
reserve_index_low(b, i) ==
    LET c_side == b.track_sects \div b.cluster_sects
        t_count == b.sectors \div (b.track_sects * 2)
        c_split == (t_count - 1) * c_side
        c_dual == (b.track_sects * 2) \div b.cluster_sects
        l == i - 2
        icluster == IF l < c_split THEN l % c_side ELSE (l - c_split) % (c_dual - c_side)
        itrack == IF l < c_split THEN l \div c_side ELSE (l - c_split) \div (c_dual - c_side)
        ihd == IF l < c_split THEN 0 ELSE 1
    IN  [j |-> (itrack * c_dual) + (ihd * c_side) + icluster + 2,
         ihead |-> ihd]

\* the body of the loop of _reserve_side1 up to j, for scan position i
reserve_index(b, i) ==
    LET c_side == b.track_sects \div b.cluster_sects
        t_count == b.sectors \div (b.track_sects * 2)
        c_split == (t_count - 1) * c_side
        c_dual == (b.track_sects * 2) \div b.cluster_sects
        l == i - 2
        icluster == IF l < c_split THEN l % c_side ELSE (l - c_split) % (c_dual - c_side)
        itrack == IF l < c_split THEN l \div c_side ELSE (l - c_split) \div (c_dual - c_side)
        ihd == IF l < c_split THEN 0 ELSE 1
    IN  [j |-> (itrack * c_dual) + ((1 - ihd) * (c_dual - c_side)) + icluster + 2,
         ihead |-> ihd]

(***************************************************************************)
(* SpecScan: the two loops on the blank image of the 720K geometry, one    *)
(* iteration to a step.  fat is the FAT array of the blank image, nops the *)
(* scan position i, data the clusters the loop has taken so far: the       *)
(* chain of an _add_chain that asks for more clusters than there are, the  *)
(* clusters close_side1 has reserved.  last holds j (ret) and ihead        *)
(* (slots) of the iteration, prev.ret the count of _reserve_side1.         *)
(***************************************************************************)
InitScan ==
    /\ data = <<>>
    /\ fat = [k \in 1..boot_fat_len(blank_fields) |->
                 IF k = 1 THEN 4087 ELSE IF k = 2 THEN 4095 ELSE 0]
    /\ volume_id = <<0, 0>>
    /\ volume_label = <<>>
    /\ last = NoCall
    /\ prev = NoCall
    /\ nops = 2

\* _add_chain: for i in range(2,len(self.fat))
ScanAddChain ==
    /\ last.op \in {"none", "add_chain"}
    /\ nops < Len(fat)
    /\ data' = IF add_chain_index(blank_fields, nops).j < boot_cluster_limit(blank_fields)
                  /\ fat[add_chain_index(blank_fields, nops).j + 1] = 0
               THEN Append(data, add_chain_index(blank_fields, nops).j)
               ELSE data
    /\ last' = Call("add_chain", <<>>, <<>>, add_chain_index(blank_fields, nops).j, FALSE,
                    add_chain_index(blank_fields, nops).ihead)
    /\ nops' = nops + 1
    /\ UNCHANGED <<fat, prev, volume_id, volume_label>>

\* _reserve_side1(True): for i in range(2,self.cluster_limit)
ScanReserve ==
    /\ last.op \in {"none", "reserve_side1"}
    /\ nops < boot_cluster_limit(blank_fields)
    /\ LET x == reserve_index(blank_fields, nops)
       IN  /\ fat' = IF x.ihead = 0 /\ fat[x.j + 1] = 0 THEN [fat EXCEPT ![x.j + 1] = 4080]
                     ELSE fat
           /\ data' = IF x.ihead = 0 /\ fat[x.j + 1] = 0 THEN Append(data, x.j) ELSE data
           /\ prev' = [prev EXCEPT !.ret = IF x.ihead = 0
                                           THEN (IF fat[x.j + 1] = 0 THEN @ + 1 ELSE @)
                                           ELSE (IF fat[x.j + 1] # 0 THEN @ - 1 ELSE @)]
           /\ last' = Call("reserve_side1", <<>>, <<>>, x.j, FALSE, x.ihead)
    /\ nops' = nops + 1
    /\ UNCHANGED <<volume_id, volume_label>>

NextScan == ScanAddChain \/ ScanReserve

SpecScan == InitScan /\ [][NextScan]_vars

(***************************************************************************)
(* Properties.  Definitions used to state them.                            *)
(***************************************************************************)
\* the set of clusters of the chain starting at cluster
RECURSIVE ChainFrom(_, _, _)
ChainFrom(f, cluster, acc) ==
    IF cluster < 2 \/ cluster >= 4080 \/ cluster \in acc THEN acc
    ELSE ChainFrom(f, f[cluster + 1], acc \cup {cluster})

ChainOf(f, cluster) == ChainFrom(f, cluster, {})

\* the number of times x occurs in the sequence q
Count(q, x) == Cardinality({i \in 1..Len(q) : q[i] = x})

IsPrefix(p, q) == Len(p) <= Len(q) /\ SubSeq(q, 1, Len(p)) = p

\* the index of the first terminal entry of a directory stream (its length in
\* slots when there is none)
RECURSIVE Terminal(_, _)
Terminal(directory, i) ==
    IF i >= Len(directory) \div 32 \/ directory[(i * 32) + 1] = 0 THEN i
    ELSE Terminal(directory, i + 1)

\* the live entries of the directory at cluster: files and subdirectories,
\* without "." and ".."
LiveIn(d, f, cluster) ==
    LET directory == read_dir_chain(d, f, cluster)
        all == {Entry(directory, cluster, i) : i \in 0..(Terminal(directory, 0) - 1)}
    IN  {e \in all : e.incipit # EMPTY /\ ~is_volume(e) /\ ~(is_subdir(e) /\ is_dot(e))}

\* the live entries of the directory at cluster and of every directory beneath
RECURSIVE TreeEntries(_, _, _)
TreeEntries(d, f, cluster) ==
    LET live == LiveIn(d, f, cluster)
    IN  live \cup UNION {TreeEntries(d, f, e.cluster) : e \in {x \in live : is_subdir(x)}}

\* the clusters of the chain starting at cluster, in chain order
RECURSIVE ChainSeq(_, _, _)
ChainSeq(f, cluster, acc) ==
    IF cluster < 2 \/ cluster >= 4080 \/ Len(acc) > NClusters THEN acc
    ELSE ChainSeq(f, f[cluster + 1], Append(acc, cluster))

\* where in the buffer the entry e is stored: slot e.dir_index of the
\* directory at e.dir_cluster, PerCluster slots to each cluster of its chain
SlotOf(f, e) ==
    IF e.dir_cluster < 2 THEN root + (32 * e.dir_index)
    ELSE cluster_offset(ChainSeq(f, e.dir_cluster, <<>>)[(e.dir_index \div PerCluster) + 1])
         + (32 * (e.dir_index % PerCluster))

\* the physical position of a cluster: its sectors, and the head of a sector
SectorsOf(j) ==
    {(cluster_offset(j) \div sector_size) + k : k \in 0..(cluster_sects - 1)}
HeadOf(sector) == (sector \div track_sects) % heads
\* cluster j lies on side 1 (head 0) with all its sectors
Side1(j) == \A x \in SectorsOf(j) : HeadOf(x) = 0
\* the side 1 capacity: the data clusters lying on side 1
Capacity == Cardinality({j \in 2..(cluster_limit - 1) : Side1(j)})

\* the entry found at the path of the latest call (used when it exists)
LastEntry == find_path(data, fat, last.path)[1]

\* the latest call is an add_file_path that returned True / a delete_path that
\* returned True
Added == last.op = "add_file" /\ last.ret = 1
Deleted == last.op = "delete" /\ last.ret = 1

(***************************************************************************)
(* C1.  If add_file_path(P, D) returns True - in any reachable state, for  *)
(* any content D, empty or spanning several clusters -                     *)
(* extract_file_path(P) called next returns exactly D.                     *)
(***************************************************************************)
C1_AddThenExtract ==
    Added => extract_file_path(data, fat, last.path) = <<last.bytes>>

\* a file of several clusters was added in a subdirectory, on an image already
\* written to
C1_Witness ==
    /\ Added
    /\ nops > 1
    /\ Len(last.bytes) > cluster_size
    /\ find(last.path, 92) >= 0

(***************************************************************************)
(* C2 (as stated).  After add_file_path(P, A) and then add_file_path(P, B) *)
(* both returned True, extract_file_path(P) returns B and P appears        *)
(* exactly once in files().                                                *)
(***************************************************************************)
C2_OverwriteOnce ==
    (/\ Added
     /\ prev.op = "add_file"
     /\ prev.ret = 1
     /\ prev.path = last.path)
    => /\ extract_file_path(data, fat, last.path) = <<last.bytes>>
       /\ Count(files(data, fat), last.path) = 1

(***************************************************************************)
(* C3.  The step from add_file_path(P, A) returned True to                 *)
(* add_file_path(P, B) returned True: OldChain is A's chain before the     *)
(* step, NewChain is B's chain after it.                                   *)
(***************************************************************************)
Overwrite ==
    /\ Added
    /\ last'.op = "add_file"
    /\ last'.ret = 1
    /\ last'.path = last.path
    /\ find_path(data, fat, last.path) # <<>>

OldChain == ChainOf(fat, LastEntry.cluster)
NewChain == ChainOf(fat', find_path(data', fat', last'.path)[1].cluster)

\* C3 (as stated): after the overwrite every cluster of A's chain is free
\* (FAT value 0).
C3_OldChainFree ==
    [][Overwrite => \A c \in OldChain : fat'[c + 1] = 0]_vars

\* C3 (amended): after the overwrite every cluster of A's chain is either free
\* (FAT value 0) or part of the chain of the new file B; none stays allocated
\* to anything else.
C3_OldChainFreeOrReused ==
    [][Overwrite => \A c \in OldChain : fat'[c + 1] = 0 \/ c \in NewChain]_vars

\* a file of several clusters was overwritten by a file of one cluster
C3_Witness ==
    /\ Added
    /\ prev.op = "add_file"
    /\ prev.ret = 1
    /\ prev.path = last.path
    /\ Len(prev.bytes) > cluster_size
    /\ Len(last.bytes) <= cluster_size

(***************************************************************************)
(* C4 (as stated).  When add_file_path returns False, files() returns the  *)
(* same list as before the call, every file that existed reads back the    *)
(* same bytes, and the FAT array is unchanged.                             *)
(***************************************************************************)
C4_FailedAddChangesNothing ==
    [][(last'.op = "add_file" /\ ~last'.exc /\ last'.ret = 0)
       => /\ files(data', fat') = files(data, fat)
          /\ fat' = fat
          /\ \A i \in 1..Len(files(data, fat)) :
                extract_file_path(data', fat', files(data, fat)[i])
                    = extract_file_path(data, fat, files(data, fat)[i])]_vars

(***************************************************************************)
(* C5 (as stated).  When add_dir_path returns -1 the FAT array equals the  *)
(* FAT array before the call.                                              *)
(***************************************************************************)
C5_FailedDirRestoresFat ==
    [][(last'.op = "add_dir" /\ ~last'.exc /\ last'.ret = -1) => fat' = fat]_vars

(***************************************************************************)
(* C6 (as stated).  When add_file_path or add_dir_path raises because a    *)
(* name is not an 8.3 name, no cluster that was free before the call is    *)
(* non-free after it.                                                      *)
(***************************************************************************)
C6_NameErrorUndoesFat ==
    [][(last'.op \in {"add_file", "add_dir"} /\ last'.exc)
       => \A k \in 1..Len(fat) : fat[k] = 0 => fat'[k] = 0]_vars

(***************************************************************************)
(* C7.  A delete_path that returns True on a directory frees (FAT value 0) *)
(* every cluster of the chain of every file and subdirectory beneath it    *)
(* and of its own chain, and sets to 0xE5 the first byte of the entry of   *)
(* each of them and of its own entry, wherever in the directory's chain    *)
(* the entry is stored.                                                    *)
(***************************************************************************)
C7_DeleteFreesTree ==
    [][(/\ last'.op = "delete"
        /\ last'.ret = 1
        /\ find_path(data, fat, last'.path) # <<>>
        /\ is_subdir(find_path(data, fat, last'.path)[1]))
       => \A x \in {find_path(data, fat, last'.path)[1]}
                   \cup TreeEntries(data, fat, find_path(data, fat, last'.path)[1].cluster) :
             /\ \A c \in ChainOf(fat, x.cluster) : fat'[c + 1] = 0
             /\ data'[SlotOf(fat, x) + 1] = EMPTY]_vars

\* a directory grown beyond one cluster was deleted, the entry in its second
\* cluster having been added by the call before
C7_Witness ==
    /\ Deleted
    /\ ~last.exc
    /\ last.slots > PerCluster
    /\ prev.op = "add_file"
    /\ prev.ret = 1

(***************************************************************************)
(* C8 (as stated).  After delete_path(P) returned True, find_path(P) finds *)
(* nothing and files() holds neither P nor a path beneath P.               *)
(***************************************************************************)
C8_DeletedIsGone ==
    Deleted
    => /\ find_path(data, fat, last.path) = <<>>
       /\ \A i \in 1..Len(files(data, fat)) :
             /\ files(data, fat)[i] # last.path
             /\ ~IsPrefix(last.path \o <<92>>, files(data, fat)[i])

(***************************************************************************)
(* C9.  A second add_dir_path with the same path, right after one that     *)
(* returned, returns the same value (the same cluster), leaves files()     *)
(* with the same entries, and leaves the FAT array unchanged.              *)
(***************************************************************************)
C9_AddDirTwice ==
    [][(/\ last.op = "add_dir"
        /\ ~last.exc
        /\ last'.op = "add_dir"
        /\ last'.path = last.path)
       => /\ ~last'.exc
          /\ last'.ret = last.ret
          /\ files(data', fat') = files(data, fat)
          /\ fat' = fat]_vars

\* a path of two levels was created and then asked for again
C9_Witness ==
    /\ last.op = "add_dir"
    /\ prev.op = "add_dir"
    /\ prev.path = last.path
    /\ find(last.path, 92) >= 0
    /\ prev.ret >= 2
    /\ last.ret >= 2

(***************************************************************************)
(* C10.  Filling the blank image with single-cluster files (SpecFill):     *)
(* nops = N after the Nth file.                                            *)
(***************************************************************************)
\* the clusters of all directories of the image
DirClusters ==
    UNION {ChainOf(fat, e.cluster) : e \in {x \in TreeEntries(data, fat, 0) : is_subdir(x)}}

\* the latest file's entry opened a new cluster of its directory: that
\* cluster was allocated after the file's data
GrewDir ==
    /\ LastEntry.dir_cluster >= 2
    /\ LastEntry.dir_index > 0
    /\ LastEntry.dir_index % PerCluster = 0

\* the directory clusters allocated before the latest file's data
DirsBefore == Cardinality(DirClusters) - (IF GrewDir THEN 1 ELSE 0)

\* C10 (as stated): the Nth file's data cluster is on side 1 for all N below
\* the side 1 capacity, and the (capacity+1)th file's is on side 2.
C10_NthOnSide1 ==
    Added
    => /\ nops < Capacity => Side1(LastEntry.cluster)
       /\ nops = Capacity + 1 => ~Side1(LastEntry.cluster)

\* C10 (amended): the Nth file's data cluster is on side 1 exactly when N plus
\* the number of clusters taken before it by the directories of the paths is
\* at most the side 1 capacity; with all files in the root directory, the
\* Nth is on side 1 for N up to the capacity and the (capacity+1)th on side 2.
C10_SideByClustersTaken ==
    Added => (Side1(LastEntry.cluster) <=> nops + DirsBefore <= Capacity)

\* the first file to land on side 2: with it and the directories, capacity+1
\* clusters are taken
C10_Witness ==
    /\ Added
    /\ ~Side1(LastEntry.cluster)
    /\ nops + DirsBefore = Capacity + 1

(***************************************************************************)
(* C11, C12, C13: side 1 and side 2.                                       *)
(***************************************************************************)
DataClusters == 2..(cluster_limit - 1)
\* the free clusters of side 1 and the clusters in use beyond side 1
FreeSide1Set(f) == {j \in DataClusters : Side1(j) /\ f[j + 1] = 0}
UsedSide2Set(f) == {j \in DataClusters : ~Side1(j) /\ f[j + 1] # 0}
FreeSide2Set(f) == {j \in DataClusters : ~Side1(j) /\ f[j + 1] = 0}

\* a close_side1 step marks exactly the free side 1 clusters with 0xFF0
ClosedExactly ==
    \A k \in 1..Len(fat) :
        fat'[k] = IF (k - 1) \in FreeSide1Set(fat) THEN 4080 ELSE fat[k]

DirPart(path) == IF rfind(path, 92) >= 0 THEN SubSeq(path, 1, rfind(path, 92)) ELSE <<>>
DirClusterOf(d, f, path) ==
    IF DirPart(path) = <<>> THEN 0
    ELSE IF find_path(d, f, DirPart(path)) # <<>> /\ is_subdir(find_path(d, f, DirPart(path))[1])
         THEN find_path(d, f, DirPart(path))[1].cluster
         ELSE -1
\* the directory at cluster has a slot that is free (deleted or terminal)
HasFreeSlot(d, f, cluster) ==
    \E i \in 0..((Len(read_dir_chain(d, f, cluster)) \div 32) - 1) :
        read_dir_chain(d, f, cluster)[(i * 32) + 1] \in {0, EMPTY}
\* path is listed by files(), as a file or as a directory
Exists(d, f, path) ==
    \E i \in 1..Len(files(d, f)) :
        files(d, f)[i] = path \/ files(d, f)[i] = path \o <<92>>

\* the step: right after close_side1, an add_file_path of at most one cluster
\* of data into an existing directory with a free slot
AddAfterClose ==
    /\ last.op = "close_side1"
    /\ last'.op = "add_file"
    /\ Len(last'.bytes) <= cluster_size
    /\ DirClusterOf(data, fat, last'.path) >= 0
    /\ HasFreeSlot(data, fat, DirClusterOf(data, fat, last'.path))

\* what the step does: takes a side 2 cluster, or fails with the FAT unchanged
\* when no side 2 cluster is free
Side2OrFails ==
    IF FreeSide2Set(fat) # {}
    THEN /\ last'.ret = 1
         /\ ~Side1(find_path(data', fat', last'.path)[1].cluster)
         /\ \A j \in DataClusters : Side1(j) => fat'[j + 1] = fat[j + 1]
    ELSE /\ last'.ret = 0
         /\ fat' = fat

AllocSide1 == {scan_cluster(i) : i \in {k \in DataClusters : ihead(k) = 0}}

C14_CodecRoundTrip ==
    [][(last.op = "fat_flush" /\ last'.op = "fat_open") => fat' = fat]_vars

\* an array of odd length whose last entry has three different nibbles,
\* read back from a region that held 0xFF bytes
C14_Witness ==
    /\ last.op = "fat_open"
    /\ Len(fat) % 2 = 1
    /\ Len(fat) >= 3
    /\ fat[Len(fat)] = 2748
    /\ fat[Len(fat) - 1] = 291
    /\ \E k \in 1..Len(data) : data[k] \div 16 = 15 /\ data[k] % 16 # 15

(***************************************************************************)
(* C15 - C18.  flush() and the construction of a Floppy from a buffer.     *)
(***************************************************************************)
\* table i of the buffer d, and entry k (from 0) of a packed table c
CopyBytes(d, i) ==
    SubSeq(d, (reserved_sects * sector_size) + (fat_sects * sector_size * i) + 1,
              (reserved_sects * sector_size) + (fat_sects * sector_size * (i + 1)))
EntryAt(c, k) ==
    IF k % 2 = 0
    THEN c[((3 * k) \div 2) + 1] + ((c[((3 * k) \div 2) + 2] % 16) * 256)
    ELSE (c[((3 * k) \div 2) + 1] \div 16) + (c[((3 * k) \div 2) + 2] * 16)
Decodes(c, f) ==
    /\ Len(f) = (2 * Len(c)) \div 3
    /\ \A k \in 0..(Len(f) - 1) : EntryAt(c, k) = f[k + 1]
CopiesDiffer(d) == \E i \in 1..(fat_count - 1) : CopyBytes(d, i) # CopyBytes(d, 0)

\* C15: after any sequence of operations followed by flush(), constructing
\* a new Floppy from the buffer succeeds and yields the same FAT array, the
\* same files() and the same bytes for every file.
C15_FlushThenReopen ==
    [][(last.op = "flush" /\ last'.op = "open" /\ last'.bytes = data) =>
          /\ ~last'.exc
          /\ fat' = fat
          /\ files(data', fat') = files(data, fat)
          /\ \A p \in SyncPaths :
                extract_file_path(data', fat', p) = extract_file_path(data, fat, p)]_vars

\* an image with a file of two clusters, flushed and read back
C15_Witness ==
    /\ last.op = "open"
    /\ ~last.exc
    /\ prev.op = "flush"
    /\ \E p \in SyncPaths : extract_file_path(data, fat, p) = <<Bytes(cluster_size + 1)>>
    /\ \E c \in DataClusters : fat[c + 1] \in DataClusters

\* C16: constructing a Floppy from a buffer in which some FAT copy i >= 1
\* differs in any byte from copy 0 fails with an error; the buffer is not
\* modified and no copy is repaired.
C16_MismatchRejected ==
    [][(last'.op = "open" /\ CopiesDiffer(last'.bytes)) =>
          /\ last'.exc
          /\ data' = last'.bytes]_vars

\* a flushed buffer whose tables then differ in their last byte only is
\* rejected
C16_Witness ==
    /\ last.op = "open"
    /\ last.exc
    /\ CopiesDiffer(last.bytes)
    /\ SubSeq(CopyBytes(last.bytes, 1), 1, (fat_sects * sector_size) - 1)
         = SubSeq(CopyBytes(last.bytes, 0), 1, (fat_sects * sector_size) - 1)
    /\ prev.op = "flush"
    /\ nops > 2

\* C17: in every reachable state of an object all fat_count FAT copies in
\* the buffer are byte-identical, and immediately after flush() each copy
\* decodes to the in-memory FAT.
C17_CopiesIdentical ==
    Constructed =>
        /\ ~CopiesDiffer(data)
        /\ last.op = "flush" =>
               \A i \in 0..(fat_count - 1) : Decodes(CopyBytes(data, i), fat)

\* a flush of a FAT that holds a chain of two clusters
C17_Witness ==
    /\ last.op = "flush"
    /\ \E c \in DataClusters : fat[c + 1] \in DataClusters
    /\ \E c \in DataClusters : fat[c + 1] = 4095

\* C18: flush() rewrites only boot-sector fields and FAT copies: every byte
\* of the root directory region and of the data clusters is unchanged (and
\* so is every byte of the boot sector outside data[11:28] and data[39:54]).
C18_FlushKeepsRootAndData ==
    [][last'.op = "flush" =>
          /\ Len(data') = Len(data)
          /\ SubSeq(data', root + 1, Len(data)) = SubSeq(data, root + 1, Len(data))
          /\ SubSeq(data', 1, 11) = SubSeq(data, 1, 11)
          /\ SubSeq(data', 29, 39) = SubSeq(data, 29, 39)
          /\ SubSeq(data', 55, reserved_sects * sector_size)
               = SubSeq(data, 55, reserved_sects * sector_size)]_vars

\* a flush of an image with a file in a subdirectory, after a deletion
C18_Witness ==
    /\ last.op = "flush"
    /\ prev.op = "delete"
    /\ prev.ret = 1
    /\ Exists(data, fat, Join(NameD, NameA))

(***************************************************************************)
(* C19.  Paths that do not exist.                                          *)
(***************************************************************************)
\* p is listed by files(), as a file or as a directory
Listed(fl, p) == \E i \in 1..Len(fl) : fl[i] = p \/ fl[i] = p \o <<92>>
Probes ==
    {NameA, NameB, Join(NameA, NameA), Join(NameA, NameB), Join(NameA, NameC),
     Join(NameB, NameA), Join(Join(NameA, NameB), NameA),
     Join(Join(NameA, NameB), NameC), Join(Join(NameA, NameA), NameA)}
NoneFound(d, f, fl) ==
    \A p \in Probes :
        ~Listed(fl, p) =>
            /\ find_path(d, f, p) = <<>>
            /\ extract_file_path(d, f, p) = <<>>
            /\ delete_path([data |-> d, fat |-> f, exc |-> FALSE], p)
                 = [s |-> [data |-> d, fat |-> f, exc |-> FALSE], r |-> FALSE]

\* C19: for a path that does not exist, find_path and extract_file_path
\* return None and delete_path returns False; none raises an exception, and
\* the FAT and the buffer are unchanged.
C19_NonexistentPath ==
    [][/\ NoneFound(data', fat', files(data', fat'))
       /\ (last'.op = "delete" /\ ~Listed(files(data, fat), last'.path)) =>
             /\ last'.ret = 0
             /\ ~last'.exc
             /\ data' = data
             /\ fat' = fat]_vars

\* delete_path of a path under an existing directory that has no such entry
C19_Witness ==
    /\ last.op = "delete"
    /\ last.ret = 0
    /\ last.path = Join(NameA, NameB)
    /\ Listed(files(data, fat), NameA)
    /\ Listed(files(data, fat), Join(NameA, NameA))
    /\ find_path(data, fat, NameA) # <<>>
    /\ is_subdir(find_path(data, fat, NameA)[1])

(***************************************************************************)
(* C20.  The root directory has root_max slots and is never extended.      *)
(***************************************************************************)
RootRegion(d) == SubSeq(d, root + 1, root + (32 * root_max))
RootFull(d) ==
    \A i \in 0..(root_max - 1) : d[root + (32 * i) + 1] \notin {0, EMPTY}
RootLevel(path) == \A k \in 1..Len(path) : path[k] # 92

\* C20: the root directory is never extended: when all root_max slots hold
\* live entries, adding a new root-level file returns False and adding a
\* new root-level directory returns -1, the root region is unchanged and no
\* cluster stays allocated by the failed call.
C20_RootNeverExtended ==
    [][(/\ RootFull(data)
        /\ last'.op \in {"add_file", "add_dir"}
        /\ RootLevel(last'.path)
        /\ ~Listed(files(data, fat), last'.path)) =>
          /\ ~last'.exc
          /\ last'.op = "add_file" => last'.ret = 0
          /\ last'.op = "add_dir" => last'.ret = -1
          /\ RootRegion(data') = RootRegion(data)
          /\ fat' = fat]_vars

\* a file of two clusters refused by a full root while clusters are free
C20_Witness ==
    /\ RootFull(data)
    /\ last.op = "add_file"
    /\ last.ret = 0
    /\ RootLevel(last.path)
    /\ Len(last.bytes) > cluster_size
    /\ Cardinality({c \in DataClusters : fat[c + 1] = 0}) >= 2
    /\ ~Listed(files(data, fat), last.path)

\* a directory refused by a full root
C20_WitnessDir ==
    /\ RootFull(data)
    /\ last.op = "add_dir"
    /\ last.ret = -1
    /\ Cardinality({c \in DataClusters : fat[c + 1] = 0}) >= 1

(***************************************************************************)
(* C21, C30.  The volume label and the volume id.                          *)
(***************************************************************************)
\* the root slots that hold a volume-label entry
VolumeSlots(d) ==
    {i \in 0..(root_max - 1) :
        /\ d[root + (32 * i) + 1] \notin {0, EMPTY}
        /\ (d[root + (32 * i) + 12] \div 8) % 2 = 1}
LabelField(d) == SubSeq(d, 44, 54)

\* C21: after set_volume_label(L) and flush(), the root directory holds
\* exactly one volume-label entry and its 11 name bytes equal the 11-byte
\* label field of the boot sector, also when the root directory is full
\* and when a label was set before.
C21_OneLabelEntry ==
    (last.op = "flush" /\ prev.op = "set_volume_label" /\ ~last.exc /\ ~prev.exc) =>
        /\ Cardinality(VolumeSlots(data)) = 1
        /\ \A i \in VolumeSlots(data) :
              SubSeq(data, root + (32 * i) + 1, root + (32 * i) + 11) = LabelField(data)

\* the same, for a root directory that had a free slot or a volume entry
\* when the label was set
C21_OneLabelEntryGivenRoom ==
    (/\ last.op = "flush" /\ prev.op = "set_volume_label" /\ ~last.exc /\ ~prev.exc
     /\ (VolumeSlots(data) # {} \/ ~RootFull(data))) =>
        /\ Cardinality(VolumeSlots(data)) = 1
        /\ \A i \in VolumeSlots(data) :
              SubSeq(data, root + (32 * i) + 1, root + (32 * i) + 11) = LabelField(data)

\* C30: after set_volume_id(v) followed by flush(), the volume id parsed
\* from the buffer by constructing a new Floppy from it equals v modulo
\* 2^32, for every image, the blank one on which no label was set included.
C30_VolumeIdRoundTrip ==
    [][(/\ prev.op = "set_volume_id"
        /\ last.op = "flush"
        /\ last'.op = "open"
        /\ ~last'.exc) =>
          volume_id' = <<prev.ret % 65536, (prev.ret \div 65536) % 65536>>]_vars

\* the same, for an image on which a label was set (data[38] = 0x29)
C30_VolumeIdRoundTripSigned ==
    [][(/\ prev.op = "set_volume_id"
        /\ last.op = "flush"
        /\ last'.op = "open"
        /\ ~last'.exc
        /\ data[39] = 41) =>
          volume_id' = <<prev.ret % 65536, (prev.ret \div 65536) % 65536>>]_vars

(***************************************************************************)
(* C22, C23, C24, C27.  The structure of the FAT under mixed operations.   *)
(***************************************************************************)
\* the clusters owned by the live entries reachable from the root
OwnedClusters(d, f) == UNION {ChainOf(f, e.cluster) : e \in TreeEntries(d, f, 0)}
\* the data clusters whose FAT entry is neither free nor reserved
UsedClusters(f) == {c \in DataClusters : f[c + 1] \notin {0, 4080}}
NoLeak(d, f) == UsedClusters(f) \subseteq OwnedClusters(d, f)

\* C22: after any sequence of operations that each return normally, every
\* FAT entry at an index 2..cluster_limit-1 that is neither 0 nor 0xFF0
\* belongs to the chain of a live file or directory entry reachable from
\* the root: it holds on the blank image, and an operation that returns
\* normally keeps it.
C22_NoUnlinkedCluster ==
    /\ NoLeak(data, fat)
    /\ [][(NoLeak(data, fat) /\ ~last'.exc) => NoLeak(data', fat')]_vars

\* a failed add (no cluster for the new slot of the full directory D) has
\* given back the chain it had allocated for the contents
C22_Witness ==
    /\ last.op = "add_file" /\ last.ret = 0 /\ ~last.exc
    /\ last.path = Join(NameD, NameC)
    /\ Cardinality({c \in DataClusters : fat[c + 1] = 0}) = 1
    /\ find_path(data, fat, Join(NameD, NameB)) # <<>>
    /\ find_path(data, fat, Join(NameD, NameA)) # <<>>
    /\ NoLeak(data, fat)

\* no cluster occurs twice in the chain starting at cluster
NoRepeat(f, cluster) ==
    LET q == ChainSeq(f, cluster, <<>>)
    IN  \A i, k \in 1..Len(q) : q[i] = q[k] => i = k

\* C23: in every state reachable from the blank image no cluster belongs
\* to the chains of two live entries (files and directories other than
\* the root, "." and ".." not counted), and none appears twice in one
\* chain.
C23_ChainsDisjoint ==
    \A e1, e2 \in TreeEntries(data, fat, 0) :
        /\ NoRepeat(fat, e1.cluster)
        /\ e1 # e2 => ChainOf(fat, e1.cluster) \cap ChainOf(fat, e2.cluster) = {}

\* a file of several clusters stored in clusters a deleted entry gave
\* back, beside a directory and a file in it
C23_Witness ==
    /\ prev.op = "delete" /\ prev.ret = 1
    /\ last.op = "add_file" /\ last.ret = 1
    /\ Cardinality(TreeEntries(data, fat, 0)) >= 3
    /\ \E e \in TreeEntries(data, fat, 0) : Cardinality(ChainOf(fat, e.cluster)) >= 2

\* C24: after any sequence of add_file_path, add_dir_path, delete_path,
\* close_side1 and set_volume_label on the blank image every FAT entry at
\* an index 2..cluster_limit-1 is 0, 0xFF0, 0xFFF or a link to a cluster
\* in 2..cluster_limit-1.
C24_EntriesWellFormed ==
    \A c \in DataClusters : fat[c + 1] \in ({0, 4080, 4095} \cup DataClusters)

\* all four kinds of entry at once, on an image that has a label
C24_Witness ==
    /\ \A v \in {0, 4080, 4095} : \E c \in DataClusters : fat[c + 1] = v
    /\ \E c \in DataClusters : fat[c + 1] \in DataClusters
    /\ VolumeSlots(data) # {}
    /\ last.op \in {"add_file", "add_dir", "delete"}

\* C27: a FAT entry set to 0xFF0 by close_side1 keeps 0xFF0 through every
\* later add_file_path, add_dir_path, delete_path and close_side1.
C27_ReservedStays ==
    [][(last'.op \in {"add_file", "add_dir", "delete", "close_side1"}) =>
          \A c \in DataClusters : fat[c + 1] = 4080 => fat'[c + 1] = 4080]_vars

\* side 1 was closed, then a file was added and deleted again
C27_Witness ==
    /\ last.op = "delete" /\ last.ret = 1
    /\ prev.op = "add_file" /\ prev.ret = 1
    /\ \E c \in DataClusters : Side1(c) /\ fat[c + 1] = 4080
    /\ \E c \in DataClusters : ~Side1(c) /\ fat[c + 1] = 0

(***************************************************************************)
(* C25, C26.  _add_chain.                                                  *)
(***************************************************************************)
\* the free data clusters, and the clusters a given number of bytes needs
FreeSet(f) == {c \in DataClusters : f[c + 1] = 0}
Needed(n) == IF n = 0 THEN 1 ELSE ((n - 1) \div cluster_size) + 1
\* the chain _add_chain has just returned (empty when it returned -1)
ChainReturned(f, call) == IF call.ret < 2 THEN <<>> ELSE ChainSeq(f, call.ret, <<>>)

\* C25: with enough free clusters _add_chain(data) links exactly
\* max(1, ceil(len(data) / cluster_size)) clusters that were free into
\* one chain whose last entry is 0xFFF, and returns the first cluster of
\* it; with too few free clusters it returns -1 and changes neither the
\* FAT nor the buffer.
C25_AddChain ==
    [][last'.op = "add_chain" =>
         IF Cardinality(FreeSet(fat)) >= Needed(Len(last'.bytes))
         THEN LET q == ChainReturned(fat', last')
              IN  /\ Len(q) = Needed(Len(last'.bytes))
                  /\ \A k \in 1..Len(q) : q[k] \in FreeSet(fat)
                  /\ \A k, m \in 1..Len(q) : q[k] = q[m] => k = m
                  /\ fat'[q[Len(q)] + 1] = 4095
                  /\ \A k \in 1..Len(fat) :
                        fat'[k] # fat[k] => \E m \in 1..Len(q) : q[m] = k - 1
         ELSE last'.ret = -1 /\ fat' = fat /\ data' = data]_vars

\* a chain of three clusters was linked, and the next call found one free
\* cluster where it needed two
C25_Witness ==
    /\ last.op = "add_chain" /\ last.ret = -1 /\ Len(last.bytes) = cluster_size + 1
    /\ Cardinality(FreeSet(fat)) = 1
    /\ prev.op = "add_chain" /\ prev.ret >= 2 /\ Len(prev.bytes) = 3 * cluster_size
    /\ Len(ChainSeq(fat, prev.ret, <<>>)) = 3

\* the place of a cluster on the disk: its track and, within the track of
\* its head, the sector it starts at
TrackOf(j) == (cluster_offset(j) \div sector_size) \div (track_sects * heads)
InTrack(j) == (cluster_offset(j) \div sector_size) % track_sects
Before(a, b) ==
    TrackOf(a) < TrackOf(b) \/ (TrackOf(a) = TrackOf(b) /\ InTrack(a) < InTrack(b))

\* C26: _add_chain takes free clusters in allocation order: a side 2
\* cluster is put in a chain only when every side 1 cluster is non-free
\* or already taken for that chain, and within one side the clusters are
\* taken in ascending track, then ascending in-track index, none that is
\* free being passed over.  Side 1 are the clusters lying on head 0 with
\* all their sectors.
C26_AllocationOrder ==
    [][last'.op = "add_chain" =>
         LET q == ChainReturned(fat', last')
         IN  \A k \in 1..Len(q) :
                /\ ~Side1(q[k]) =>
                      \A c \in FreeSet(fat) :
                          Side1(c) => \E m \in 1..(k - 1) : q[m] = c
                /\ \A m \in 1..(k - 1) :
                      Side1(q[m]) = Side1(q[k]) => Before(q[m], q[k])
                /\ \A c \in FreeSet(fat) :
                      (Side1(c) = Side1(q[k]) /\ Before(c, q[k])) =>
                          \E m \in 1..(k - 1) : q[m] = c]_vars

\* a chain that starts on side 1 and goes on, past clusters in use, on
\* side 2
C26_Witness ==
    /\ last.op = "add_chain" /\ last.ret >= 2
    /\ Side1(last.ret)
    /\ \E c \in DataClusters : ~Side1(c) /\ fat[last.ret + 1] = c
                               /\ \E b \in DataClusters : b < c /\ ~Side1(b)
                                                          /\ fat[b + 1] = 4095
    /\ \E c \in DataClusters : Side1(c) /\ c # last.ret /\ fat[c + 1] \in DataClusters

(***************************************************************************)
(* C28.  A full non-root directory grows by one cluster.                   *)
(***************************************************************************)
\* the bytes of cluster c
ClusterBytes(d, c) == SubSeq(d, cluster_offset(c) + 1, cluster_offset(c) + cluster_size)
\* the clusters that were free in f and are not free in f2
Taken(f, f2) == {c \in DataClusters : f[c + 1] = 0 /\ f2[c + 1] # 0}

\* every slot of the directory stream holds a live entry
AllLive(directory) ==
    \A i \in 0..((Len(directory) \div 32) - 1) : directory[(i * 32) + 1] \notin {0, EMPTY}
\* the cluster of the directory a lookup found (-1 when it found none)
FoundDir(found) == IF found # <<>> /\ is_subdir(found[1]) THEN found[1].cluster ELSE -1
\* the cluster of the non-root directory the path lies in
ParentCluster(d, f, path) ==
    IF DirPart(path) = <<>> THEN 0 ELSE FoundDir(find_path(d, f, DirPart(path)))

\* the step: an entry not yet present is inserted into an existing non-root
\* directory all of whose slots hold live entries
InsertIntoFull ==
    /\ last'.op \in {"add_file", "add_dir"}
    /\ ~last'.exc
    /\ last'.ret > 0
    /\ ParentCluster(data, fat, last'.path) >= 2
    /\ AllLive(read_dir_chain(data, fat, ParentCluster(data, fat, last'.path)))
    /\ find_path(data, fat, last'.path) = <<>>
    /\ find_path(data', fat', last'.path) # <<>>

\* the directory at cluster pc has grown by the cluster n for the entry e
GrownBy(d, f, d2, f2, pc, old, n, e) ==
    /\ ChainSeq(f2, pc, <<>>) = Append(old, n)
    /\ f[n + 1] = 0
    /\ f2[n + 1] = 4095
    /\ f2[old[Len(old)] + 1] = n
    /\ n \notin ChainOf(f2, e.cluster)
    /\ Taken(f, f2) = {n} \cup ChainOf(f2, e.cluster)
    /\ e.dir_cluster = pc
    /\ e.dir_index = Len(old) * PerCluster
    /\ d2[cluster_offset(n) + 1] \notin {0, EMPTY}
    /\ \A k \in 33..cluster_size : d2[cluster_offset(n) + k] = 0
    /\ \A k \in 1..Len(old) : ClusterBytes(d2, old[k]) = ClusterBytes(d, old[k])

\* C28: when an entry is inserted into a non-root directory in which
\* every slot holds a live entry, exactly one new cluster is allocated,
\* zero-filled and linked at the end of the directory's chain (old tail ->
\* new cluster -> 0xFFF), the entry is stored in the first slot of the
\* new cluster, and the earlier entries of the directory stay as they are.
C28_DirectoryGrows ==
    [][InsertIntoFull =>
         GrownBy(data, fat, data', fat',
                 ParentCluster(data, fat, last'.path),
                 ChainSeq(fat, ParentCluster(data, fat, last'.path), <<>>),
                 dir_tail(fat', ParentCluster(data, fat, last'.path)),
                 find_path(data', fat', last'.path)[1])]_vars

\* A\D was inserted into the full directory A after the file B, whose
\* clusters hold its bytes, was deleted
C28_Witness ==
    /\ last.op = "add_file" /\ last.ret = 1 /\ last.path = Join(NameA, NameD)
    /\ prev.op = "delete" /\ prev.ret = 1 /\ prev.path = NameB
    /\ find_path(data, fat, Join(NameA, NameA)) # <<>>
    /\ find_path(data, fat, Join(NameA, NameC)) # <<>>
    /\ Len(ChainSeq(fat, find_path(data, fat, NameA)[1].cluster, <<>>)) = 2
    /\ find_path(data, fat, Join(NameA, NameD))[1].dir_index = PerCluster

(***************************************************************************)
(* C29.  What delete_path writes into the buffer.                          *)
(***************************************************************************)
\* the entries delete_path deletes for the entry e it found: e, and for a
\* directory every live entry beneath it
DeletedBy(d, f, e) == {e} \cup (IF is_subdir(e) THEN TreeEntries(d, f, e.cluster) ELSE {})
\* the buffer positions of the first bytes of their slots
MarkedBy(d, f, e) == {SlotOf(f, x) + 1 : x \in DeletedBy(d, f, e)}
\* the buffer positions at which d and d2 differ
Differing(d, d2) == {k \in 1..Len(d) : d2[k] # d[k]}

\* C29: delete_path changes in the buffer only the first byte of the
\* 32-byte slot of each entry it deletes, which becomes 0xE5: the other
\* bytes of these slots, the bytes of the freed clusters and every other
\* directory entry stay as they are.  A delete_path that finds nothing
\* changes nothing.
C29_DeleteWritesMarks ==
    [][last'.op = "delete" =>
         IF last'.ret = 1
         THEN /\ Differing(data, data') \subseteq
                     MarkedBy(data, fat, find_path(data, fat, last'.path)[1])
              /\ \A k \in MarkedBy(data, fat, find_path(data, fat, last'.path)[1]) :
                     data'[k] = EMPTY
         ELSE data' = data]_vars

\* the directory A of two clusters was deleted with all beneath it
C29_Witness ==
    /\ last.op = "delete" /\ last.ret = 1 /\ last.path = NameA
    /\ last.slots = 2 * PerCluster
    /\ files(data, fat) = <<>>
    /\ \E c \in DataClusters : fat[c + 1] = 0 /\ data[cluster_offset(c) + 1] = EMPTY
    /\ \E c \in DataClusters : fat[c + 1] = 0 /\ data[cluster_offset(c) + 1] = 46

(***************************************************************************)
(* C31.  Chains end.                                                       *)
(***************************************************************************)
\* the chain starting at cluster runs through distinct data clusters and
\* its last cluster holds 0xFFF
EndsInFFF(f, cluster) ==
    LET q == ChainSeq(f, cluster, <<>>)
    IN  /\ Len(q) >= 1
        /\ Len(q) <= NClusters
        /\ \A i \in 1..Len(q) : q[i] \in DataClusters
        /\ \A i, k \in 1..Len(q) : q[i] = q[k] => i = k
        /\ f[q[Len(q)] + 1] = 4095

\* C31: in every state reachable from the blank image the FAT chain that
\* starts at the start cluster of a live entry is acyclic and reaches
\* 0xFFF, so that the chain read, the chain delete, the directory-tail
\* walk and the recursive listing and delete, which follow the links
\* until a value of 0xFF0 or more, come to an end.
C31_ChainsEnd ==
    \A e \in TreeEntries(data, fat, 0) : EndsInFFF(fat, e.cluster)

\* the directory D has grown to two clusters, the tail walk has linked the
\* second one
C31_Witness ==
    /\ last.op = "add_file" /\ last.ret = 1 /\ last.path = Join(NameD, NameC)
    /\ find_path(data, fat, NameD) # <<>>
    /\ Len(ChainSeq(fat, find_path(data, fat, NameD)[1].cluster, <<>>)) = 2
    /\ Cardinality(TreeEntries(data, fat, 0)) = 4

(***************************************************************************)
(* C32, C33.  The index mapping on the geometry of the blank image.        *)
(***************************************************************************)
ScanClusters == 2..(boot_cluster_limit(blank_fields) - 1)
\* the scan positions of the two loops
AddChainPositions == 2..(boot_fat_len(blank_fields) - 1)
ReservePositions == 2..(boot_cluster_limit(blank_fields) - 1)
\* the positions before i at which a loop produces the cluster j
AddChainBefore(i, j) ==
    {k \in AddChainPositions : k < i /\ add_chain_index(blank_fields, k).j = j}
ReserveBefore(i, j) ==
    {k \in ReservePositions : k < i /\ reserve_index(blank_fields, k).j = j}

\* C32: on the geometry of the blank image the index mapping of
\* _add_chain and of _reserve_side1 is a bijection onto the data clusters:
\* a position of either loop produces a cluster no earlier position has
\* produced, a position of _reserve_side1 produces a data cluster, when a
\* loop is through every cluster 2..cluster_limit-1 has been produced, and
\* a cluster has the same side in both loops.
C32_ScanBijection ==
    /\ last.op = "add_chain" /\ last.ret < boot_cluster_limit(blank_fields) =>
          /\ last.ret \in ScanClusters
          /\ AddChainBefore(nops - 1, last.ret) = {}
          /\ \A k \in ReservePositions :
                reserve_index(blank_fields, k).j = last.ret =>
                    reserve_index(blank_fields, k).ihead = last.slots
    /\ last.op = "add_chain" /\ nops = boot_fat_len(blank_fields) =>
          \A c \in ScanClusters : AddChainBefore(nops, c) # {}
    /\ last.op = "reserve_side1" =>
          /\ last.ret \in ScanClusters
          /\ ReserveBefore(nops - 1, last.ret) = {}
          /\ \E k \in AddChainPositions :
                /\ add_chain_index(blank_fields, k).j = last.ret
                /\ add_chain_index(blank_fields, k).ihead = last.slots
    /\ last.op = "reserve_side1" /\ nops = boot_cluster_limit(blank_fields) =>
          \A c \in ScanClusters : ReserveBefore(nops, c) # {}

\* _add_chain is through its loop and has taken every data cluster once
C32_Witness ==
    /\ last.op = "add_chain" /\ nops = boot_fat_len(blank_fields)
    /\ Len(data) = boot_cluster_limit(blank_fields) - 2
    /\ \A c \in ScanClusters : \E k \in 1..Len(data) : data[k] = c

\* the sectors of cluster j on the blank image, the head and the track of
\* a sector
ScanSectors(j) ==
    {(cluster_offset_of(blank_fields, j) \div blank_fields.sector_size) + k :
        k \in 0..(blank_fields.cluster_sects - 1)}
ScanHead(sector) == (sector \div blank_fields.track_sects) % blank_fields.heads
ScanTrack(sector) == sector \div (blank_fields.track_sects * blank_fields.heads)

\* C33: on the geometry of the blank image every cluster the allocator
\* classifies as side 1 consists only of sectors on head 0 of the tracks 1
\* and above: it holds no sector of head 1, none of track 0, and does not
\* straddle the two sides.
C33_Side1OnHead0 ==
    (/\ last.op \in {"add_chain", "reserve_side1"}
     /\ last.slots = 0
     /\ last.ret < boot_cluster_limit(blank_fields)) =>
        \A x \in ScanSectors(last.ret) : ScanHead(x) = 0 /\ ScanTrack(x) >= 1

\* the last side 1 cluster of the scan, on track 79
C33_Witness ==
    /\ last.op = "add_chain" /\ last.slots = 0
    /\ add_chain_index(blank_fields, nops).ihead = 1
    /\ \A x \in ScanSectors(last.ret) : ScanTrack(x) = 79

(***************************************************************************)
(* C34 (as stated).  No directory of the image, the root or a live         *)
(* subdirectory, holds two live entries (file or subdirectory) with the    *)
(* same name.                                                              *)
(***************************************************************************)
\* the directories of the image: the root (cluster 0) and the cluster of
\* every live subdirectory
Directories(d, f) ==
    {0} \cup {e.cluster : e \in {x \in TreeEntries(d, f, 0) : is_subdir(x)}}

\* the live entries of the directory at cluster that are named name
Named(d, f, cluster, name) == {e \in LiveIn(d, f, cluster) : e.path = name}

C34_NamesUnique ==
    \A c \in Directories(data, fat) :
        \A e \in LiveIn(data, fat, c) :
            Cardinality(Named(data, fat, c, e.path)) = 1

(***************************************************************************)
(* C35 (as stated).  A call of add_file_path, add_dir_path or delete_path  *)
(* on the path P, whether it succeeds or fails, leaves the result of       *)
(* extract_file_path(Q) as it was for every existing file Q that is        *)
(* neither P nor beneath P.                                                *)
(***************************************************************************)
\* Q is an existing file: find_path finds an entry that is no subdirectory
IsFile(d, f, Q) ==
    LET found == find_path(d, f, Q)
    IN  found # <<>> /\ ~is_subdir(found[1])

\* Q is the path P or lies beneath it
Beneath(Q, P) == Q = P \/ IsPrefix(P \o <<92>>, Q)

C35_OtherFilesKept ==
    [][\A Q \in FrameFiles :
          (/\ last'.op \in {"add_file", "add_dir", "delete"}
           /\ IsFile(data, fat, Q)
           /\ ~Beneath(Q, last'.path))
          => extract_file_path(data', fat', Q) = extract_file_path(data, fat, Q)]_vars

(***************************************************************************)
(* C36 (as stated).  Once close_side1() has been called, no later          *)
(* add_file_path or add_dir_path takes a side 1 cluster, whatever          *)
(* delete_path calls happen in between.                                    *)
(***************************************************************************)
\* the step is an add_file_path or add_dir_path after which a side 1
\* cluster that was free before it is part of a chain
TakesSide1 ==
    /\ last'.op \in {"add_file", "add_dir"}
    /\ \E j \in DataClusters :
          /\ Side1(j)
          /\ fat[j + 1] = 0
          /\ fat'[j + 1] \notin {0, 4080}

\* close_side1 has been called and has reserved a cluster: only
\* _reserve_side1(True) writes the value 0xFF0 into the FAT array
Side1Closed == \E j \in DataClusters : fat[j + 1] = 4080

C36_Side1StaysClosed ==
    [][Side1Closed => ~TakesSide1]_vars

====
